---------------------------- MODULE Spec2Model ----------------------------
(***************************************************************************)
(* F&B audit application: the unit-audit form (AuditForm), the staff       *)
(* evaluation form (StaffEvaluation), the selection page (SelectPage) and  *)
(* the page switch (App), over a shared document store with the two        *)
(* collections unitAudits and staffEvaluations.                            *)
(*                                                                         *)
(* JavaScript strings that the code inspects (trim, toLowerCase, includes, *)
(* split, padStart) are sequences of one-character strings, so that these  *)
(* operations are computed and not assumed.  Strings used only as keys or  *)
(* tags are TLA+ strings.                                                  *)
(***************************************************************************)
EXTENDS Integers, Sequences, FiniteSets, TLC

VARIABLES
  unitAudits,        \* store collection "unitAudits": the payloads written, in order
  staffEvaluations,  \* store collection "staffEvaluations"
  today,             \* index into Days of the local calendar day new Date() falls on
  clients,           \* the client sessions that exist
  cfg,               \* the inputs explored: what users type, and how many
                     \* handler invocations may await the store at one time
  page,              \* App: page[s]
  selection,         \* App: selection[s]
  authed,            \* App: authed[s]
  signIn,            \* App: where tryAnonSignIn of session s stands: "none"
                     \* (a user was signed in at the mount), "pending", "done",
                     \* "failed"
  selBranch,         \* SelectPage: branch[s]
  selType,           \* SelectPage: type[s]
  formData,          \* AuditForm: formData[s]
  liveScores,        \* AuditForm: liveScores[s], computed on every render
  unitErrors,        \* AuditForm: errors[s]
  unitTouched,       \* AuditForm: touched[s]
  form,              \* StaffEvaluation: form[s]
  ratings,           \* StaffEvaluation: ratings[s]
  staffErrors,       \* StaffEvaluation: errors[s]
  staffTouched,      \* StaffEvaluation: touched[s]
  saving,            \* StaffEvaluation: saving[s]
  autocomplete,      \* StaffEvaluation: the autocomplete state, autocomplete[s]
  report,            \* RetrieveReports: the component's state, report[s]
  detail,            \* RetrieveReports: the employee detail state, detail[s]
  tasks,             \* the running invocations of the async handlers, oldest first;
                     \* `answer` records how the store answered the uniqueness
                     \* query ("none" while it is pending, "empty", "error")
  alert,             \* alert[s]: the last window.alert shown in session s
  budget,            \* input events (typing, choosing) still explored
  submits            \* form submit events so far

storeVars == << unitAudits, staffEvaluations >>
envVars == << today, clients, cfg >>
authVars == << authed, signIn >>
appVars == << page, selection, authVars >>
selectVars == << selBranch, selType >>
unitVars == << formData, liveScores, unitErrors, unitTouched >>
staffVars == << form, ratings, staffErrors, staffTouched, saving, autocomplete >>
reportVars == << report, detail >>
runVars == << tasks, alert >>
boundVars == << budget, submits >>

vars == << storeVars, envVars, appVars, selectVars, reportVars, unitVars, staffVars,
           runVars, boundVars >>

\* everything but the state of the sign-in
coreVars == << storeVars, envVars, page, selection, selectVars, reportVars, unitVars,
              staffVars, runVars, boundVars >>

(***************************************************************************)
(* Bounds of the exploration.                                              *)
(***************************************************************************)
\* input events explored on top of an initial form state
MaxEdits == 1
\* input events explored on top of an initial form state, scoring alone
MaxScoreEdits == 2
\* form submit events explored
MaxSubmits == 2
\* handler invocations awaiting the store at one time
MaxInFlight == 2
\* input events explored in the sequential staff flow: enough to fill in the
\* form again after a successful save has reset it
MaxRefill == 7

Sessions == {1, 2}

(***************************************************************************)
(* String helpers.                                                         *)
(***************************************************************************)
UpperLetters == <<"A","B","C","D","E","F","G","H","I","J","K","L","M",
                  "N","O","P","Q","R","S","T","U","V","W","X","Y","Z">>
LowerLetters == <<"a","b","c","d","e","f","g","h","i","j","k","l","m",
                  "n","o","p","q","r","s","t","u","v","w","x","y","z">>

LowerMap ==
  [c \in {UpperLetters[i] : i \in 1..26} |->
     LowerLetters[CHOOSE i \in 1..26 : UpperLetters[i] = c]]

LowerChar(c) == IF c \in DOMAIN LowerMap THEN LowerMap[c] ELSE c

\* String.prototype.toLowerCase
toLowerCase(s) == [i \in 1..Len(s) |-> LowerChar(s[i])]

IsSpace(c) == c \in {" ", "\t", "\n"}

RECURSIVE trimStart(_)
trimStart(s) ==
  IF s # <<>> /\ IsSpace(Head(s)) THEN trimStart(Tail(s)) ELSE s

RECURSIVE trimEnd(_)
trimEnd(s) ==
  IF s # <<>> /\ IsSpace(s[Len(s)]) THEN trimEnd(SubSeq(s, 1, Len(s) - 1)) ELSE s

\* String.prototype.trim
trim(s) == trimEnd(trimStart(s))

\* String.prototype.includes
includes(s, sub) ==
  \E i \in 0..(Len(s) - Len(sub)) : SubSeq(s, i + 1, i + Len(sub)) = sub

\* the value undefined (no one-character string equals its element)
Undefined == << "undefined" >>

\* String(v)
StringOf(v) ==
  IF v = Undefined THEN <<"u","n","d","e","f","i","n","e","d">> ELSE v

\* JavaScript truthiness of a string or undefined
Truthy(v) == v # Undefined /\ v # <<>>

Yes == <<"Y","e","s">>
No == <<"N","o">>

(***************************************************************************)
(* AuditForm: parameters and options.                                      *)
(***************************************************************************)
kitchenParams ==
  << "Overall kitchen cleanliness maintained",
     "Floors, walls, and ceilings clean and dry",
     "Cooking range and equipment properly cleaned",
     "Exhaust system functioning and cleaned",
     "Waste segregation & disposal followed" >>

hygieneParams ==
  << "Staff wearing clean uniform, cap, gloves, mask",
     "Personal hygiene maintained (nails, hair, hand wash)",
     "Hand wash & sanitizer available and used" >>

foodSafetyParams ==
  << "Bain Marie temperature maintained (>=60C)",
     "Fridge temperature maintained (<=5C)",
     "Freezer temperature maintained (<=-18C)",
     "Raw and cooked food stored separately",
     "Expiry date & labelling followed" >>

observationsOptions ==
  << (* -- Select -- *)
     <<"-","-"," ","S","e","l","e","c","t"," ","-","-">>,
     (* No issues observed *)
     <<"N","o"," ","i","s","s","u","e","s"," ","o","b","s","e","r","v","e","d">>,
     (* Minor cleanliness issues (surface/sweep) *)
     <<"M","i","n","o","r"," ","c","l","e","a","n","l","i","n","e","s","s"," ","i","s","s","u","e","s"," ","(","s","u","r","f","a","c","e","/","s","w","e","e","p",")">>,
     (* Food held outside safe temperature range *)
     <<"F","o","o","d"," ","h","e","l","d"," ","o","u","t","s","i","d","e"," ","s","a","f","e"," ","t","e","m","p","e","r","a","t","u","r","e"," ","r","a","n","g","e">>,
     (* Cross-contamination risk observed *)
     <<"C","r","o","s","s","-","c","o","n","t","a","m","i","n","a","t","i","o","n"," ","r","i","s","k"," ","o","b","s","e","r","v","e","d">>,
     (* Staff hygiene non-compliant *)
     <<"S","t","a","f","f"," ","h","y","g","i","e","n","e"," ","n","o","n","-","c","o","m","p","l","i","a","n","t">>,
     (* Equipment malfunction (e.g., oven/fridge) *)
     <<"E","q","u","i","p","m","e","n","t"," ","m","a","l","f","u","n","c","t","i","o","n"," ","(","e",".","g",".",","," ","o","v","e","n","/","f","r","i","d","g","e",")">>,
     (* Pest activity or droppings noted *)
     <<"P","e","s","t"," ","a","c","t","i","v","i","t","y"," ","o","r"," ","d","r","o","p","p","i","n","g","s"," ","n","o","t","e","d">>,
     (* Expired or damaged items found *)
     <<"E","x","p","i","r","e","d"," ","o","r"," ","d","a","m","a","g","e","d"," ","i","t","e","m","s"," ","f","o","u","n","d">>,
     (* Insufficient labeling / traceability *)
     <<"I","n","s","u","f","f","i","c","i","e","n","t"," ","l","a","b","e","l","i","n","g"," ","/"," ","t","r","a","c","e","a","b","i","l","i","t","y">>,
     (* Other (manual) *)
     <<"O","t","h","e","r"," ","(","m","a","n","u","a","l",")">> >>

maintenanceOptions ==
  << (* -- Select -- *)
     <<"-","-"," ","S","e","l","e","c","t"," ","-","-">>,
     (* No maintenance required *)
     <<"N","o"," ","m","a","i","n","t","e","n","a","n","c","e"," ","r","e","q","u","i","r","e","d">>,
     (* Immediate cleaning required *)
     <<"I","m","m","e","d","i","a","t","e"," ","c","l","e","a","n","i","n","g"," ","r","e","q","u","i","r","e","d">>,
     (* Schedule deep-cleaning *)
     <<"S","c","h","e","d","u","l","e"," ","d","e","e","p","-","c","l","e","a","n","i","n","g">>,
     (* Repair or service equipment *)
     <<"R","e","p","a","i","r"," ","o","r"," ","s","e","r","v","i","c","e"," ","e","q","u","i","p","m","e","n","t">>,
     (* Replace expired/damaged stock *)
     <<"R","e","p","l","a","c","e"," ","e","x","p","i","r","e","d","/","d","a","m","a","g","e","d"," ","s","t","o","c","k">>,
     (* Retrain staff on hygiene & PPE *)
     <<"R","e","t","r","a","i","n"," ","s","t","a","f","f"," ","o","n"," ","h","y","g","i","e","n","e"," ","&"," ","P","P","E">>,
     (* Improve waste segregation & disposal *)
     <<"I","m","p","r","o","v","e"," ","w","a","s","t","e"," ","s","e","g","r","e","g","a","t","i","o","n"," ","&"," ","d","i","s","p","o","s","a","l">>,
     (* Adjust/monitor temperature controls *)
     <<"A","d","j","u","s","t","/","m","o","n","i","t","o","r"," ","t","e","m","p","e","r","a","t","u","r","e"," ","c","o","n","t","r","o","l","s">>,
     (* Improve labeling & storage procedures *)
     <<"I","m","p","r","o","v","e"," ","l","a","b","e","l","i","n","g"," ","&"," ","s","t","o","r","a","g","e"," ","p","r","o","c","e","d","u","r","e","s">>,
     (* Implement daily cleaning checklist *)
     <<"I","m","p","l","e","m","e","n","t"," ","d","a","i","l","y"," ","c","l","e","a","n","i","n","g"," ","c","h","e","c","k","l","i","s","t">>,
     (* Other (manual) *)
     <<"O","t","h","e","r"," ","(","m","a","n","u","a","l",")">> >>

actionPlanOptions ==
  << (* -- Select -- *)
     <<"-","-"," ","S","e","l","e","c","t"," ","-","-">>,
     (* Correct on spot & coach staff *)
     <<"C","o","r","r","e","c","t"," ","o","n"," ","s","p","o","t"," ","&"," ","c","o","a","c","h"," ","s","t","a","f","f">>,
     (* Repair within 24-48 hours *)
     <<"R","e","p","a","i","r"," ","w","i","t","h","i","n"," ","2","4","-","4","8"," ","h","o","u","r","s">>,
     (* Discard affected items and document *)
     <<"D","i","s","c","a","r","d"," ","a","f","f","e","c","t","e","d"," ","i","t","e","m","s"," ","a","n","d"," ","d","o","c","u","m","e","n","t">>,
     (* Schedule vendor/service visit *)
     <<"S","c","h","e","d","u","l","e"," ","v","e","n","d","o","r","/","s","e","r","v","i","c","e"," ","v","i","s","i","t">>,
     (* Staff re-training scheduled *)
     <<"S","t","a","f","f"," ","r","e","-","t","r","a","i","n","i","n","g"," ","s","c","h","e","d","u","l","e","d">>,
     (* Implement new SOP/checklist *)
     <<"I","m","p","l","e","m","e","n","t"," ","n","e","w"," ","S","O","P","/","c","h","e","c","k","l","i","s","t">>,
     (* Follow-up audit in 7 days *)
     <<"F","o","l","l","o","w","-","u","p"," ","a","u","d","i","t"," ","i","n"," ","7"," ","d","a","y","s">>,
     (* Escalate to branch manager *)
     <<"E","s","c","a","l","a","t","e"," ","t","o"," ","b","r","a","n","c","h"," ","m","a","n","a","g","e","r">>,
     (* Document corrective action and monitor *)
     <<"D","o","c","u","m","e","n","t"," ","c","o","r","r","e","c","t","i","v","e"," ","a","c","t","i","o","n"," ","a","n","d"," ","m","o","n","i","t","o","r">>,
     (* Other (manual) *)
     <<"O","t","h","e","r"," ","(","m","a","n","u","a","l",")">> >>

SelectSentinel == observationsOptions[1]
OtherManual == observationsOptions[11]
NoIssuesObserved == observationsOptions[2]
NoMaintenanceRequired == maintenanceOptions[2]

Range(seq) == {seq[i] : i \in 1..Len(seq)}

(***************************************************************************)
(* AuditForm: scoring.                                                     *)
(***************************************************************************)
POINTS_PER_CHECK == 6
OBS_MAINT_PTS == 11

getObservationScore(preset, manual) ==
  LET p == toLowerCase(StringOf(IF Truthy(preset) THEN preset ELSE <<>>))
  IN  IF p = <<"n","o"," ","i","s","s","u","e","s"," ","o","b","s","e","r","v","e","d">>
      THEN OBS_MAINT_PTS
      ELSE IF includes(p, <<"o","t","h","e","r">>)
      THEN IF Truthy(manual)
              /\ includes(toLowerCase(trim(manual)), <<"n","o"," ","i","s","s","u","e">>)
           THEN OBS_MAINT_PTS
           ELSE -OBS_MAINT_PTS
      ELSE IF ~Truthy(preset) \/ preset = SelectSentinel
      THEN 0
      ELSE -OBS_MAINT_PTS

\* getMaintenanceScore looking for "no issue" in the text as typed
getMaintenanceScoreAsTyped(preset, manual) ==
  LET p == toLowerCase(StringOf(IF Truthy(preset) THEN preset ELSE <<>>))
  IN  IF \/ p = <<"n","o"," ","m","a","i","n","t","e","n","a","n","c","e"," ",
                  "r","e","q","u","i","r","e","d">>
         \/ p = <<"n","o"," ","i","s","s","u","e","s"," ","o","b","s","e","r","v","e","d">>
      THEN OBS_MAINT_PTS
      ELSE IF includes(p, <<"o","t","h","e","r">>)
      THEN IF Truthy(manual)
              /\ includes(trim(manual), <<"n","o"," ","i","s","s","u","e">>)
           THEN OBS_MAINT_PTS
           ELSE -OBS_MAINT_PTS
      ELSE IF ~Truthy(preset) \/ preset = SelectSentinel
      THEN 0
      ELSE -OBS_MAINT_PTS

getMaintenanceScore(preset, manual) ==
  LET p == toLowerCase(StringOf(IF Truthy(preset) THEN preset ELSE <<>>))
  IN  IF \/ p = <<"n","o"," ","m","a","i","n","t","e","n","a","n","c","e"," ",
                  "r","e","q","u","i","r","e","d">>
         \/ p = <<"n","o"," ","i","s","s","u","e","s"," ","o","b","s","e","r","v","e","d">>
      THEN OBS_MAINT_PTS
      ELSE IF includes(p, <<"o","t","h","e","r">>)
      THEN IF Truthy(manual)
              /\ includes(toLowerCase(trim(manual)), <<"n","o"," ","i","s","s","u","e">>)
           THEN OBS_MAINT_PTS
           ELSE -OBS_MAINT_PTS
      ELSE IF ~Truthy(preset) \/ preset = SelectSentinel
      THEN 0
      ELSE -OBS_MAINT_PTS

allParams == kitchenParams \o hygieneParams \o foodSafetyParams

\* obj?.[label]
Lookup(obj, label) == IF label \in DOMAIN obj THEN obj[label] ELSE Undefined

\* kitchenObj?.[label] ?? hygieneObj?.[label] ?? foodObj?.[label]
Coalesce3(a, b, c) == IF a # Undefined THEN a ELSE IF b # Undefined THEN b ELSE c

Min(a, b) == IF a < b THEN a ELSE b
Max(a, b) == IF a > b THEN a ELSE b

RECURSIVE checklistSum(_, _, _, _)
checklistSum(labels, kitchenObj, hygieneObj, foodObj) ==
  IF labels = <<>> THEN 0
  ELSE LET val == Coalesce3(Lookup(kitchenObj, Head(labels)),
                            Lookup(hygieneObj, Head(labels)),
                            Lookup(foodObj, Head(labels)))
       IN  (IF toLowerCase(StringOf(val)) = <<"y","e","s">> THEN POINTS_PER_CHECK ELSE 0)
           + checklistSum(Tail(labels), kitchenObj, hygieneObj, foodObj)

\* computeScores without the clamp
computeScoresUnclamped(kitchenObj, hygieneObj, foodObj, observationsPreset, observationsManual, maintenancePreset, maintenanceManual) ==
  LET checklistRaw == checklistSum(allParams, kitchenObj, hygieneObj, foodObj)
      obsScore == getObservationScore(observationsPreset, observationsManual)
      maintScore == getMaintenanceScore(maintenancePreset, maintenanceManual)
      rawScore == checklistRaw + obsScore + maintScore
  IN  [ checklistRaw |-> checklistRaw,
        obsScore |-> obsScore,
        maintScore |-> maintScore,
        rawScore |-> rawScore,
        scoreOutOf100 |-> rawScore,
        maxChecklist |-> Len(allParams) * POINTS_PER_CHECK ]

computeScores(kitchenObj, hygieneObj, foodObj, observationsPreset, observationsManual, maintenancePreset, maintenanceManual) ==
  LET checklistRaw == checklistSum(allParams, kitchenObj, hygieneObj, foodObj)
      obsScore == getObservationScore(observationsPreset, observationsManual)
      maintScore == getMaintenanceScore(maintenancePreset, maintenanceManual)
      rawScore == checklistRaw + obsScore + maintScore
      finalScore == Max(0, Min(100, rawScore))
  IN  [ checklistRaw |-> checklistRaw,
        obsScore |-> obsScore,
        maintScore |-> maintScore,
        rawScore |-> rawScore,
        scoreOutOf100 |-> finalScore,
        maxChecklist |-> Len(allParams) * POINTS_PER_CHECK ]

\* the scores of a form state (the arguments every call site passes)
scoresOf(fd) ==
  computeScores(fd.kitchen, fd.hygiene, fd.foodSafety,
                fd.observationsPreset, fd.observationsManual,
                fd.maintenancePreset, fd.maintenanceManual)

(***************************************************************************)
(* Dates.                                                                  *)
(***************************************************************************)
\* the local calendar days the exploration covers, in order
Days ==
  << [day |-> 9, month |-> 6, year |-> 2024],
     [day |-> 10, month |-> 6, year |-> 2024] >>

Digits == <<"0","1","2","3","4","5","6","7","8","9">>

IsDigit(c) == c \in Range(Digits)

RECURSIVE NumToString(_)
\* String(n) of a natural number
NumToString(n) ==
  IF n < 10 THEN << Digits[n + 1] >>
  ELSE NumToString(n \div 10) \o << Digits[(n % 10) + 1] >>

RECURSIVE padStart(_, _, _)
\* String.prototype.padStart with a one-character filler
padStart(s, width, c) ==
  IF Len(s) >= width THEN s ELSE padStart(<< c >> \o s, width, c)

RECURSIVE split(_, _)
\* String.prototype.split on a one-character separator
split(s, sep) ==
  IF \E i \in 1..Len(s) : s[i] = sep
  THEN LET i == CHOOSE j \in 1..Len(s) :
                  s[j] = sep /\ \A k \in 1..(j - 1) : s[k] # sep
       IN  << SubSeq(s, 1, i - 1) >> \o split(SubSeq(s, i + 1, Len(s)), sep)
  ELSE << s >>

AllDigits(s) == \A i \in 1..Len(s) : IsDigit(s[i])

\* /^\d{1,2}\/\d{1,2}\/\d{4}$/.test(s)
MatchesDMY(s) ==
  LET parts == split(s, "/")
  IN  /\ Len(parts) = 3
      /\ Len(parts[1]) \in 1..2 /\ AllDigits(parts[1])
      /\ Len(parts[2]) \in 1..2 /\ AllDigits(parts[2])
      /\ Len(parts[3]) = 4 /\ AllDigits(parts[3])

\* `${day}/${month}/${year}`
JoinDMY(day, month, year) == day \o <<"/">> \o month \o <<"/">> \o year

\* the dd/mm/yyyy rendering of a Date's local calendar fields
FormatLocal(d) ==
  JoinDMY(padStart(NumToString(d.day), 2, "0"),
          padStart(NumToString(d.month), 2, "0"),
          NumToString(d.year))

\* SelectPage.js formatDateDDMMYYYY, applied to new Date()
selectFormatDate(d) == FormatLocal(d)

\* SelectPage: todayDD
todayDD == selectFormatDate(Days[today])

RECURSIVE ParseNat(_)
\* Number(s) of a string of digits
ParseNat(s) ==
  IF s = <<>> THEN 0
  ELSE 10 * ParseNat(SubSeq(s, 1, Len(s) - 1))
       + (CHOOSE n \in 0..9 : Digits[n + 1] = s[Len(s)])

IsLeap(y) == (y % 4 = 0 /\ y % 100 # 0) \/ y % 400 = 0

DaysInMonth(y, m) ==
  IF m = 2 THEN (IF IsLeap(y) THEN 29 ELSE 28)
  ELSE IF m \in {4, 6, 9, 11} THEN 30 ELSE 31

\* a Date object: its local calendar fields, or Invalid Date
InvalidDate == [valid |-> FALSE, year |-> 0, month |-> 0, day |-> 0]

LocalDate(y, m, d) == [valid |-> TRUE, year |-> y, month |-> m, day |-> d]

\* the calendar day before d
PrevDay(d) ==
  IF d.day > 1 THEN LocalDate(d.year, d.month, d.day - 1)
  ELSE IF d.month > 1
  THEN LocalDate(d.year, d.month - 1, DaysInMonth(d.year, d.month - 1))
  ELSE LocalDate(d.year - 1, 12, 31)

\* the offsets from UTC, in minutes, of the browsers' time zones
Zones == { 330, -300 }

\* new Date(s) of a string, as the browsers' parsers read the forms the
\* normalizers meet: YYYY-MM-DD is midnight UTC of that day, so the local day
\* is the day before in a zone behind UTC; M/D/YYYY and YYYY/M/D are local
\* days, the month first in the former; anything else is Invalid Date
DateParse(s) ==
  LET dash == split(s, "-")
      slash == split(s, "/")
      day(y, m, d) ==
        IF m \in 1..12 /\ d \in 1..DaysInMonth(y, m)
        THEN LocalDate(y, m, d) ELSE InvalidDate
  IN  IF /\ Len(dash) = 3 /\ \A i \in 1..3 : AllDigits(dash[i])
         /\ Len(dash[1]) = 4 /\ Len(dash[2]) = 2 /\ Len(dash[3]) = 2
      THEN LET utc == day(ParseNat(dash[1]), ParseNat(dash[2]), ParseNat(dash[3]))
           IN  IF utc.valid /\ cfg.zone < 0 THEN PrevDay(utc) ELSE utc
      ELSE IF /\ Len(slash) = 3 /\ \A i \in 1..3 : AllDigits(slash[i])
              /\ Len(slash[1]) \in 1..2 /\ Len(slash[2]) \in 1..2 /\ Len(slash[3]) = 4
      THEN day(ParseNat(slash[3]), ParseNat(slash[1]), ParseNat(slash[2]))
      ELSE IF /\ Len(slash) = 3 /\ \A i \in 1..3 : AllDigits(slash[i])
              /\ Len(slash[1]) = 4 /\ Len(slash[2]) \in 1..2 /\ Len(slash[3]) \in 1..2
      THEN day(ParseNat(slash[1]), ParseNat(slash[2]), ParseNat(slash[3]))
      ELSE InvalidDate

\* AuditForm formatDateDDMMYYYY, for the values a selection's date takes:
\* undefined, or a string
formatDateDDMMYYYY(dateValue) ==
  IF ~Truthy(dateValue) THEN <<>>
  ELSE IF MatchesDMY(trim(dateValue))
  THEN LET parts == split(trim(dateValue), "/")
       IN  JoinDMY(padStart(parts[1], 2, "0"), padStart(parts[2], 2, "0"), parts[3])
  ELSE IF ~DateParse(dateValue).valid THEN StringOf(dateValue)
  ELSE FormatLocal(DateParse(dateValue))

(***************************************************************************)
(* SelectPage: branches.                                                   *)
(***************************************************************************)
Koramangala == <<"K","o","r","a","m","a","n","g","a","l","a">>
Kochi == <<"K","o","c","h","i">>

\* centerCityMap, for the branches the exploration covers
centerCityMap ==
  [ b \in {Koramangala, Kochi} |->
      IF b = Koramangala THEN <<"B","a","n","g","a","l","o","r","e">> ELSE Kochi ]

Branches == DOMAIN centerCityMap

(***************************************************************************)
(* AuditForm: form state and its handlers.                                 *)
(***************************************************************************)
EmptyObj == [x \in {} |-> <<>>]

\* { ...obj, [key]: value }
Put(obj, key, value) ==
  [x \in (DOMAIN obj) \cup {key} |-> IF x = key THEN value ELSE obj[x]]

\* useState initial value of formData
FreshForm ==
  [ kitchen |-> EmptyObj, hygiene |-> EmptyObj, foodSafety |-> EmptyObj,
    observationsPreset |-> SelectSentinel, observationsManual |-> <<>>,
    maintenancePreset |-> SelectSentinel, maintenanceManual |-> <<>>,
    actionPreset |-> SelectSentinel, actionManual |-> <<>> ]

Sections == {"kitchen", "hygiene", "foodSafety"}

sectionParams(section) ==
  CASE section = "kitchen" -> kitchenParams
    [] section = "hygiene" -> hygieneParams
    [] section = "foodSafety" -> foodSafetyParams

Remarks == {"observations", "maintenance", "action"}

remarkOptions(which) ==
  CASE which = "observations" -> observationsOptions
    [] which = "maintenance" -> maintenanceOptions
    [] which = "action" -> actionPlanOptions

PresetField(which) ==
  CASE which = "observations" -> "observationsPreset"
    [] which = "maintenance" -> "maintenancePreset"
    [] which = "action" -> "actionPreset"

ManualField(which) ==
  CASE which = "observations" -> "observationsManual"
    [] which = "maintenance" -> "maintenanceManual"
    [] which = "action" -> "actionManual"

\* text a user types into a remark's textarea
ManualTexts ==
  { <<>>,
    <<" ">>,
    <<"L","e","a","k">>,
    <<" ","N","o"," ","I","s","s","u","e","s"," ">>,
    <<"n","o","i","s","s","u","e">> }

IsOther(preset) == includes(toLowerCase(StringOf(preset)), <<"o","t","h","e","r">>)

\* the updater handleCheck passes to setFormData
checkUpdate(prev, section, key, value) ==
  [prev EXCEPT ![section] = Put(prev[section], key, value)]

\* an updater that leaves the manual text whatever the option chosen
remarkPresetUpdateKeeping(prev, which, value) ==
  [prev EXCEPT ![PresetField(which)] = value]

\* the updater handleRemarkPreset passes to setFormData
remarkPresetUpdate(prev, which, value) ==
  IF IsOther(value)
  THEN [prev EXCEPT ![PresetField(which)] = value]
  ELSE [prev EXCEPT ![PresetField(which)] = value, ![ManualField(which)] = <<>>]

\* the updater handleRemarkManual passes to setFormData
remarkManualUpdate(prev, which, value) ==
  [prev EXCEPT ![ManualField(which)] = value]

\* a state update of formData[s] followed by the render that recomputes liveScores
SetFormData(s, fd) ==
  /\ formData' = [formData EXCEPT ![s] = fd]
  /\ liveScores' = [liveScores EXCEPT ![s] = scoresOf(fd)]

\* a radio button of a checklist item is clicked
handleCheck(s) ==
  /\ page[s] = "unit"
  /\ s \in clients
  /\ \E section \in Sections :
       \E key \in Range(sectionParams(section)) \cap cfg.items :
         \E value \in {Yes, No} :
           SetFormData(s, checkUpdate(formData[s], section, key, value))
  /\ UNCHANGED << storeVars, envVars, appVars, selectVars, reportVars, unitErrors, unitTouched,
                  staffVars, runVars, submits >>

\* an option of a remark's select element is chosen
handleRemarkPreset(s) ==
  /\ page[s] = "unit"
  /\ s \in clients
  /\ \E which \in cfg.fields :
       \E value \in Range(remarkOptions(which)) \cap cfg.presets :
         SetFormData(s, remarkPresetUpdate(formData[s], which, value))
  /\ UNCHANGED << storeVars, envVars, appVars, selectVars, reportVars, unitErrors, unitTouched,
                  staffVars, runVars, submits >>

\* text is typed into a remark's textarea, rendered only under "Other (manual)"
handleRemarkManual(s) ==
  /\ page[s] = "unit"
  /\ s \in clients
  /\ \E which \in cfg.fields :
       /\ IsOther(formData[s][PresetField(which)])
       /\ \E value \in cfg.texts :
            SetFormData(s, remarkManualUpdate(formData[s], which, value))
  /\ UNCHANGED << storeVars, envVars, appVars, selectVars, reportVars, unitErrors, unitTouched,
                  staffVars, runVars, submits >>

(***************************************************************************)
(* The document store.                                                     *)
(***************************************************************************)
\* getDocs(query(unitAudits, where("branch", "==", branch), where("date", "==", date))):
\* the matching documents
unitAuditMatches(branch, date) ==
  { i \in 1..Len(unitAudits) :
      unitAudits[i].branch = branch /\ unitAudits[i].date = date }

\* addDoc(unitAudits, payload): the collection after the insert; the store
\* checks nothing
addUnitAudit(payload) == Append(unitAudits, payload)

(***************************************************************************)
(* Running handlers.                                                       *)
(***************************************************************************)
RemoveAt(seq, i) == SubSeq(seq, 1, i - 1) \o SubSeq(seq, i + 1, Len(seq))

NoAlert == [kind |-> "none", key |-> <<>>, date |-> <<>>]

\* the last alert() a session saw: its kind, and the key and date of the
\* submission it answers (an error alert carries the store's message only)
Alert(kind, key, date) == [kind |-> kind, key |-> key, date |-> date]

(***************************************************************************)
(* AuditForm: validation and submission.                                   *)
(***************************************************************************)
\* { auditor: "Kumar Kannaiyan", ...selection }
defaultSelectionOf(sel) ==
  [ k \in (DOMAIN sel) \cup {"auditor"} |->
      IF k \in DOMAIN sel THEN sel[k]
      ELSE <<"K","u","m","a","r"," ","K","a","n","n","a","i","y","a","n">> ]

\* checkMissing: the error of a section, if any
checkMissing(fd, paramsArray, sectionKey, title) ==
  LET missing == { i \in 1..Len(paramsArray) :
                     ~Truthy(Lookup(fd[sectionKey], paramsArray[i])) }
  IN  IF Cardinality(missing) > 0
      THEN << [msg |-> title, n |-> Cardinality(missing)] >>
      ELSE <<>>

\* remarkCheck accepting "Other (manual)" without text
remarkCheckLax(label, preset, manual) ==
  IF (~Truthy(preset) \/ preset = SelectSentinel)
     /\ (~Truthy(manual) \/ trim(manual) = <<>>)
  THEN << [msg |-> label, n |-> 0] >>
  ELSE <<>>

\* remarkCheck: the error of a remark, if any
remarkCheck(label, preset, manual) ==
  IF ~Truthy(preset) \/ preset = SelectSentinel
  THEN IF ~Truthy(manual) \/ trim(manual) = <<>>
       THEN << [msg |-> label, n |-> 0] >>
       ELSE <<>>
  ELSE IF IsOther(preset) /\ (~Truthy(manual) \/ trim(manual) = <<>>)
  THEN << [msg |-> label, n |-> 1] >>
  ELSE <<>>

\* validate: the list of errors
unitValidate(defaultSelection, fd) ==
  (IF ~Truthy(Lookup(defaultSelection, "auditor"))
   THEN << [msg |-> "Auditor is required", n |-> 0] >> ELSE <<>>)
  \o (IF ~Truthy(Lookup(defaultSelection, "date"))
      THEN << [msg |-> "Date is required", n |-> 0] >> ELSE <<>>)
  \o (IF ~Truthy(Lookup(defaultSelection, "branch"))
      THEN << [msg |-> "Branch is required", n |-> 0] >> ELSE <<>>)
  \o (IF ~Truthy(Lookup(defaultSelection, "city"))
      THEN << [msg |-> "City is required", n |-> 0] >> ELSE <<>>)
  \o checkMissing(fd, kitchenParams, "kitchen", "Kitchen Cleanliness & Maintenance")
  \o checkMissing(fd, hygieneParams, "hygiene", "Personal Hygiene")
  \o checkMissing(fd, foodSafetyParams, "foodSafety", "Food Safety & Storage")
  \o remarkCheck("Observations", fd.observationsPreset, fd.observationsManual)
  \o remarkCheck("Maintenance / Suggestions", fd.maintenancePreset, fd.maintenanceManual)
  \o remarkCheck("Action Plan / Corrective Measures", fd.actionPreset, fd.actionManual)

getRemarkText(preset, manual) ==
  IF IsOther(preset)
  THEN (IF trim(manual) # <<>> THEN trim(manual) ELSE <<"-">>)
  ELSE IF preset = SelectSentinel THEN <<"-">>
  ELSE preset

\* unitPayload storing the total before the clamp as the score
unitPayloadRaw(defaultSelection, fd) ==
  LET scores == scoresOf(fd)
      dateDD == formatDateDDMMYYYY(Lookup(defaultSelection, "date"))
  IN  [ kitchen |-> fd.kitchen,
        hygiene |-> fd.hygiene,
        foodSafety |-> fd.foodSafety,
        observations |-> getRemarkText(fd.observationsPreset, fd.observationsManual),
        maintenance |-> getRemarkText(fd.maintenancePreset, fd.maintenanceManual),
        actionPlan |-> getRemarkText(fd.actionPreset, fd.actionManual),
        date |-> dateDD,
        auditor |-> Lookup(defaultSelection, "auditor"),
        branch |-> Lookup(defaultSelection, "branch"),
        city |-> Lookup(defaultSelection, "city"),
        scoreOutOf100 |-> scores.rawScore,
        scoreBreakdown |->
          [ checklist |-> scores.checklistRaw,
            observations |-> scores.obsScore,
            maintenance |-> scores.maintScore,
            totalBeforeClamp |-> scores.rawScore,
            maxChecklist |-> scores.maxChecklist ] ]

\* the payload handleSubmit builds
unitPayload(defaultSelection, fd) ==
  LET scores == scoresOf(fd)
      dateDD == formatDateDDMMYYYY(Lookup(defaultSelection, "date"))
  IN  [ kitchen |-> fd.kitchen,
        hygiene |-> fd.hygiene,
        foodSafety |-> fd.foodSafety,
        observations |-> getRemarkText(fd.observationsPreset, fd.observationsManual),
        maintenance |-> getRemarkText(fd.maintenancePreset, fd.maintenanceManual),
        actionPlan |-> getRemarkText(fd.actionPreset, fd.actionManual),
        date |-> dateDD,
        auditor |-> Lookup(defaultSelection, "auditor"),
        branch |-> Lookup(defaultSelection, "branch"),
        city |-> Lookup(defaultSelection, "city"),
        scoreOutOf100 |-> scores.scoreOutOf100,
        scoreBreakdown |->
          [ checklist |-> scores.checklistRaw,
            observations |-> scores.obsScore,
            maintenance |-> scores.maintScore,
            totalBeforeClamp |-> scores.rawScore,
            maxChecklist |-> scores.maxChecklist ] ]

\* AuditForm handleSubmit up to its first await: validation, then the
\* uniqueness query is sent
unitHandleSubmit(s) ==
  /\ s \in clients
  /\ page[s] = "unit"
  /\ submits < MaxSubmits
  /\ submits' = submits + 1
  /\ unitTouched' = [unitTouched EXCEPT ![s] = TRUE]
  /\ LET errs == unitValidate(defaultSelectionOf(selection[s]), formData[s])
     IN  /\ unitErrors' = [unitErrors EXCEPT ![s] = errs]
         /\ IF errs # <<>>
            THEN UNCHANGED tasks
            ELSE /\ Len(tasks) < cfg.inflight
                 /\ tasks' = Append(tasks,
                   [ sess |-> s, kind |-> "unit", pc |-> "query", mounted |-> TRUE,
                     answer |-> "none",
                     payload |-> unitPayload(defaultSelectionOf(selection[s]),
                                             formData[s]) ])
  /\ UNCHANGED << storeVars, envVars, appVars, selectVars, reportVars, formData, liveScores,
                  staffVars, alert, budget >>

\* the uniqueness query of a unit submission resolves with a match
unitQueryConflict(i) ==
  /\ tasks[i].kind = "unit" /\ tasks[i].pc = "query"
  /\ unitAuditMatches(tasks[i].payload.branch, tasks[i].payload.date) # {}
  /\ alert' = [alert EXCEPT ![tasks[i].sess] =
                 Alert("conflict", tasks[i].payload.branch, tasks[i].payload.date)]
  /\ tasks' = RemoveAt(tasks, i)
  /\ UNCHANGED << storeVars, envVars, appVars, selectVars, reportVars, unitVars, staffVars,
                  boundVars >>

\* unitQueryEmpty without the look at snap.empty
unitQueryAssumedEmpty(i) ==
  /\ tasks[i].kind = "unit" /\ tasks[i].pc = "query"
  /\ tasks' = [tasks EXCEPT ![i].pc = "write", ![i].answer = "empty"]
  /\ UNCHANGED << storeVars, envVars, appVars, selectVars, reportVars, unitVars, staffVars,
                  alert, boundVars >>

\* the uniqueness query of a unit submission resolves empty: the write is sent
unitQueryEmpty(i) ==
  /\ tasks[i].kind = "unit" /\ tasks[i].pc = "query"
  /\ unitAuditMatches(tasks[i].payload.branch, tasks[i].payload.date) = {}
  /\ tasks' = [tasks EXCEPT ![i].pc = "write", ![i].answer = "empty"]
  /\ UNCHANGED << storeVars, envVars, appVars, selectVars, reportVars, unitVars, staffVars,
                  alert, boundVars >>

\* getDocs or addDoc of a unit submission rejects: the catch block
unitStoreError(i) ==
  /\ tasks[i].kind = "unit" /\ tasks[i].pc \in {"query", "write"}
  /\ alert' = [alert EXCEPT ![tasks[i].sess] = Alert("error", <<>>, <<>>)]
  /\ tasks' = RemoveAt(tasks, i)
  /\ UNCHANGED << storeVars, envVars, appVars, selectVars, reportVars, unitVars, staffVars,
                  boundVars >>

\* addDoc of a unit submission resolves
unitWriteDone(i) ==
  /\ tasks[i].kind = "unit" /\ tasks[i].pc = "write"
  /\ unitAudits' = addUnitAudit(tasks[i].payload)
  /\ alert' = [alert EXCEPT ![tasks[i].sess] =
                 Alert("submitted", tasks[i].payload.branch, tasks[i].payload.date)]
  /\ tasks' = RemoveAt(tasks, i)
  /\ UNCHANGED << staffEvaluations, envVars, appVars, selectVars, reportVars, unitVars, staffVars,
                  boundVars >>

(***************************************************************************)
(* StaffEvaluation: scoring.                                               *)
(***************************************************************************)
\* ensureDDMMYYYY, for the values a selection's date takes: undefined, or a
\* string
ensureDDMMYYYY(input) ==
  IF input = Undefined THEN <<>>
  ELSE LET s == trim(StringOf(input))
           parts == IF includes(s, <<"/">>) THEN split(s, "/")
                    ELSE IF includes(s, <<"-">>) THEN split(s, "-")
                    ELSE <<>>
       IN  IF /\ Len(parts) = 3
              /\ Len(parts[1]) <= 2 /\ Len(parts[2]) <= 2 /\ Len(parts[3]) = 4
           THEN JoinDMY(padStart(parts[1], 2, "0"), padStart(parts[2], 2, "0"),
                        parts[3])
           ELSE IF DateParse(s).valid THEN FormatLocal(DateParse(s))
           ELSE s

Excellent == <<"E","x","c","e","l","l","e","n","t">>
Good == <<"G","o","o","d">>
Average == <<"A","v","e","r","a","g","e">>
Poor == <<"P","o","o","r">>

RATING_VALUE ==
  [ r \in {Excellent, Good, Average, Poor} |->
      CASE r = Excellent -> 100
        [] r = Good -> 80
        [] r = Average -> 60
        [] r = Poor -> 40 ]

scoreToGrade(n) ==
  IF n >= 90 THEN <<"A">>
  ELSE IF n >= 75 THEN <<"B">>
  ELSE IF n >= 60 THEN <<"C">>
  ELSE <<"D">>

params ==
  << <<"A","t","t","e","n","d","a","n","c","e"," ","/"," ",
       "P","u","n","c","t","u","a","l","i","t","y">>,
     <<"W","o","r","k"," ","D","i","s","c","i","p","l","i","n","e">>,
     <<"F","o","o","d"," ","T","a","s","t","e"," ","/"," ","Q","u","a","l","i","t","y">>,
     <<"H","y","g","i","e","n","e"," ","&"," ","G","r","o","o","m","i","n","g">>,
     <<"T","e","a","m","w","o","r","k"," ","/"," ","A","t","t","i","t","u","d","e">> >>

ratingOptions == << Excellent, Good, Average, Poor >>

\* `${param}_remarks`
remarksKey(param) == param \o <<"_","r","e","m","a","r","k","s">>

\* the value null of computeStaffScore (a score is never negative)
NullScore == -1

RECURSIVE ratedValues(_, _)
\* the vals array computeStaffScore collects over the keys
ratedValues(keys, ratingsObj) ==
  IF keys = <<>> THEN <<>>
  ELSE LET r == Lookup(ratingsObj, Head(keys))
       IN  (IF Truthy(r) /\ r \in DOMAIN RATING_VALUE
            THEN << RATING_VALUE[r] >> ELSE <<>>)
           \o ratedValues(Tail(keys), ratingsObj)

RECURSIVE SumSeq(_)
SumSeq(xs) == IF xs = <<>> THEN 0 ELSE Head(xs) + SumSeq(Tail(xs))

\* Math.round(num / den) for num >= 0 and den > 0: halves round up
RoundDiv(num, den) == (2 * num + den) \div (2 * den)

\* computeStaffScore averaging over all five parameters
computeStaffScoreOverAll(ratingsObj) ==
  LET vals == ratedValues(params, ratingsObj)
  IN  IF Len(vals) = 0 THEN NullScore
      ELSE RoundDiv(SumSeq(vals), Len(params))

computeStaffScore(ratingsObj) ==
  LET vals == ratedValues(params, ratingsObj)
  IN  IF Len(vals) = 0 THEN NullScore
      ELSE RoundDiv(SumSeq(vals), Len(vals))

\* useMemo: computedScore and computedGrade of a render
computedScoreOf(ratingsObj) == computeStaffScore(ratingsObj)

computedGradeOf(ratingsObj) ==
  IF computedScoreOf(ratingsObj) # NullScore
  THEN scoreToGrade(computedScoreOf(ratingsObj)) ELSE <<>>

(***************************************************************************)
(* StaffEvaluation: form state and its handlers.                           *)
(***************************************************************************)
\* useState initial value of form
FreshStaffForm ==
  [ staffName |-> <<>>, empCode |-> <<>>, designation |-> <<>>,
    totalMarks |-> <<>>, grade |-> <<>> ]

\* selectedSuggestion when it is null
NoSuggestion == [null |-> TRUE]

\* the useState initial values of the autocomplete state
FreshAutocomplete ==
  [ suggestions |-> <<>>, showSuggestions |-> FALSE, lookingUp |-> FALSE,
    selectedSuggestion |-> NoSuggestion ]

\* the effect on [computedScore, computedGrade]: the form's display fields
scoreEffect(f, ratingsObj) ==
  IF computedScoreOf(ratingsObj) # NullScore
  THEN [f EXCEPT !.totalMarks = NumToString(computedScoreOf(ratingsObj)),
                 !.grade = computedGradeOf(ratingsObj)]
  ELSE [f EXCEPT !.totalMarks = <<>>, !.grade = <<>>]

\* a rating radio button is clicked: setRatings
handleRating(s) ==
  /\ s \in clients
  /\ page[s] = "staff"
  /\ \E param \in cfg.params :
       \E value \in cfg.ratings :
         ratings' = [ratings EXCEPT ![s] = Put(ratings[s], param, value)]
  /\ UNCHANGED << storeVars, envVars, appVars, selectVars, reportVars, unitVars, form,
                  staffErrors, staffTouched, saving, runVars, submits, autocomplete >>

\* the effect of a render whose computedScore or computedGrade changed runs
\* after that render is committed; its setForm is rendered later still, so
\* until then the handlers see the form of the render before
runScoreEffect(s) ==
  /\ s \in clients
  /\ page[s] = "staff"
  /\ form[s] # scoreEffect(form[s], ratings[s])
  /\ form' = [form EXCEPT ![s] = scoreEffect(form[s], ratings[s])]
  /\ UNCHANGED << storeVars, envVars, appVars, selectVars, reportVars, unitVars, ratings,
                  staffErrors, staffTouched, saving, runVars, boundVars, autocomplete >>

\* text is typed into a parameter's remark field
handleRemark(s) ==
  /\ s \in clients
  /\ page[s] = "staff"
  /\ \E param \in cfg.params :
       \E text \in cfg.remarks :
         ratings' = [ratings EXCEPT ![s] = Put(ratings[s], remarksKey(param), text)]
  /\ UNCHANGED << storeVars, envVars, appVars, selectVars, reportVars, unitVars, form,
                  staffErrors, staffTouched, saving, runVars, submits, autocomplete >>

\* text is typed into the staff name field
handleStaffNameChange(s) ==
  /\ s \in clients
  /\ page[s] = "staff"
  /\ \E v \in cfg.names :
       form' = [form EXCEPT ![s].staffName = v]
  /\ autocomplete' = [autocomplete EXCEPT ![s].selectedSuggestion = NoSuggestion]
  /\ UNCHANGED << storeVars, envVars, appVars, selectVars, reportVars, unitVars, ratings,
                  staffErrors, staffTouched, saving, runVars, submits >>

\* text is typed into the Emp Code field, which is disabled while a
\* suggestion is selected
empCodeChange(s) ==
  /\ s \in clients
  /\ page[s] = "staff"
  /\ autocomplete[s].selectedSuggestion = NoSuggestion
  /\ \E v \in cfg.codes :
       form' = [form EXCEPT ![s].empCode = v]
  /\ UNCHANGED << storeVars, envVars, appVars, selectVars, reportVars, unitVars, ratings,
                  staffErrors, staffTouched, saving, runVars, submits, autocomplete >>

\* text is typed into the Designation field, which is disabled while a
\* suggestion is selected
designationChange(s) ==
  /\ s \in clients
  /\ page[s] = "staff"
  /\ autocomplete[s].selectedSuggestion = NoSuggestion
  /\ \E v \in cfg.designations :
       form' = [form EXCEPT ![s].designation = v]
  /\ UNCHANGED << storeVars, envVars, appVars, selectVars, reportVars, unitVars, ratings,
                  staffErrors, staffTouched, saving, runVars, submits, autocomplete >>

(***************************************************************************)
(* StaffEvaluation: validation and submission.                             *)
(***************************************************************************)
\* getDocs(query(staffEvaluations, where("empCode", "==", empCode),
\*               where("selection.date", "==", dateDD), limit(1)))
staffMatches(empCode, dateDD) ==
  { i \in 1..Len(staffEvaluations) :
      /\ staffEvaluations[i].empCode = empCode
      /\ staffEvaluations[i].selection.date = dateDD }

\* addDoc on a store that keeps (empCode, selection.date) unique by dropping
\* the second insert
addStaffEvaluationUnique(payload) ==
  IF \E k \in 1..Len(staffEvaluations) :
       /\ staffEvaluations[k].empCode = payload.empCode
       /\ staffEvaluations[k].selection.date = payload.selection.date
  THEN staffEvaluations
  ELSE Append(staffEvaluations,
              [ k \in (DOMAIN payload) \cup {"createdAt"} |->
                  IF k = "createdAt" THEN Len(staffEvaluations) + 1 ELSE payload[k] ])

\* addDoc writing over the evaluation the store holds for the employee code
\* and date, when there is one
addStaffEvaluationUpsert(payload) ==
  LET same == { k \in 1..Len(staffEvaluations) :
                  /\ staffEvaluations[k].empCode = payload.empCode
                  /\ staffEvaluations[k].selection.date = payload.selection.date }
      doc == [ k \in (DOMAIN payload) \cup {"createdAt"} |->
                 IF k = "createdAt" THEN Len(staffEvaluations) + 1 ELSE payload[k] ]
  IN  IF same # {}
      THEN [ staffEvaluations EXCEPT ![CHOOSE k \in same : TRUE] = doc ]
      ELSE Append(staffEvaluations, doc)

\* addDoc(staffEvaluations, payload); createdAt is the server's time
addStaffEvaluation(payload) ==
  Append(staffEvaluations,
         [ k \in (DOMAIN payload) \cup {"createdAt"} |->
             IF k = "createdAt" THEN Len(staffEvaluations) + 1 ELSE payload[k] ])

\* validate without the check of the ratings
staffValidateNamesOnly(f, ratingsObj) ==
  (IF trim(f.staffName) = <<>>
   THEN << [msg |-> "Staff Name is required", missing |-> <<>>] >> ELSE <<>>)
  \o (IF trim(f.empCode) = <<>>
      THEN << [msg |-> "Emp Code is required", missing |-> <<>>] >> ELSE <<>>)

\* validate: the list of errors
staffValidate(f, ratingsObj) ==
  LET missing == SelectSeq(params, LAMBDA p : ~Truthy(Lookup(ratingsObj, p)))
  IN  (IF trim(f.staffName) = <<>>
       THEN << [msg |-> "Staff Name is required", missing |-> <<>>] >> ELSE <<>>)
      \o (IF trim(f.empCode) = <<>>
          THEN << [msg |-> "Emp Code is required", missing |-> <<>>] >> ELSE <<>>)
      \o (IF Len(missing) # 0
          THEN << [msg |-> "Please rate", missing |-> missing] >> ELSE <<>>)

\* selection.branch ?? ""
OrEmpty(v) == IF v = Undefined THEN <<>> ELSE v

\* the payload handleSubmit builds from the values its render closed over
staffPayload(f, ratingsObj, sel) ==
  LET finalScore == IF computedScoreOf(ratingsObj) # NullScore
                    THEN computedScoreOf(ratingsObj) ELSE 0
      finalGrade == IF Truthy(f.grade) THEN f.grade ELSE scoreToGrade(finalScore)
  IN  [ staffName |-> f.staffName,
        empCode |-> f.empCode,
        designation |-> f.designation,
        totalMarks |-> NumToString(finalScore),
        grade |-> finalGrade,
        ratings |-> ratingsObj,
        selection |->
          [ branch |-> OrEmpty(Lookup(sel, "branch")),
            city |-> OrEmpty(Lookup(sel, "city")),
            auditor |-> OrEmpty(Lookup(sel, "auditor")),
            date |-> ensureDDMMYYYY(Lookup(sel, "date")) ],
        scoreOutOf100 |-> finalScore ]

\* StaffEvaluation handleSubmit up to its first await: validation, the date
\* check, then checkDuplicateForDate sends the uniqueness query
staffHandleSubmit(s) ==
  /\ s \in clients
  /\ page[s] = "staff"
  /\ ~saving[s]
  /\ submits < MaxSubmits
  /\ submits' = submits + 1
  /\ staffTouched' = [staffTouched EXCEPT ![s] = TRUE]
  /\ LET errs == staffValidate(form[s], ratings[s])
         dateDD == ensureDDMMYYYY(Lookup(selection[s], "date"))
     IN  /\ staffErrors' = [staffErrors EXCEPT ![s] = errs]
         /\ IF errs # <<>>
            THEN UNCHANGED << tasks, alert >>
            ELSE IF ~Truthy(dateDD)
            THEN /\ alert' = [alert EXCEPT ![s] = Alert("date missing", <<>>, <<>>)]
                 /\ UNCHANGED tasks
            ELSE /\ Len(tasks) < cfg.inflight
                 /\ tasks' = Append(tasks,
                      [ sess |-> s, kind |-> "staff", pc |-> "query", mounted |-> TRUE,
                        answer |-> "none",
                        empCode |-> trim(form[s].empCode),
                        dateDD |-> dateDD,
                        payload |-> staffPayload(form[s], ratings[s], selection[s]) ])
                 /\ UNCHANGED alert
  /\ UNCHANGED << storeVars, envVars, appVars, selectVars, reportVars, unitVars, form, ratings,
                  saving, budget, autocomplete >>

\* checkDuplicateForDate resolves true: the duplicate alert
staffQueryDuplicate(i) ==
  /\ tasks[i].kind = "staff" /\ tasks[i].pc = "query"
  /\ staffMatches(tasks[i].empCode, tasks[i].dateDD) # {}
  /\ alert' = [alert EXCEPT ![tasks[i].sess] =
                 Alert("conflict", tasks[i].empCode, tasks[i].dateDD)]
  /\ tasks' = RemoveAt(tasks, i)
  /\ UNCHANGED << storeVars, envVars, appVars, selectVars, reportVars, unitVars, staffVars,
                  boundVars >>

\* what handleSubmit does once checkDuplicateForDate has resolved false, the
\* store having answered the query with `answer`: setSaving(true), and the
\* write is sent
staffProceed(i, answer) ==
  /\ saving' = IF tasks[i].mounted
               THEN [saving EXCEPT ![tasks[i].sess] = TRUE] ELSE saving
  /\ tasks' = [tasks EXCEPT ![i].pc = "write", ![i].answer = answer]
  /\ UNCHANGED << storeVars, envVars, appVars, selectVars, reportVars, unitVars, form, ratings,
                  staffErrors, staffTouched, alert, boundVars, autocomplete >>

\* the uniqueness query resolves empty: checkDuplicateForDate returns false
staffQueryEmpty(i) ==
  /\ tasks[i].kind = "staff" /\ tasks[i].pc = "query"
  /\ staffMatches(tasks[i].empCode, tasks[i].dateDD) = {}
  /\ staffProceed(i, "empty")

\* the uniqueness query rejects: checkDuplicateForDate catches the error and
\* returns false
staffQueryError(i) ==
  /\ tasks[i].kind = "staff" /\ tasks[i].pc = "query"
  /\ staffProceed(i, "error")

\* addDoc resolves: the alert, the form is reset, then finally setSaving(false)
staffWriteDone(i) ==
  /\ tasks[i].kind = "staff" /\ tasks[i].pc = "write"
  /\ staffEvaluations' = addStaffEvaluation(tasks[i].payload)
  /\ alert' = [alert EXCEPT ![tasks[i].sess] =
                 Alert("submitted", tasks[i].payload.empCode,
                       tasks[i].payload.selection.date)]
  /\ IF tasks[i].mounted
     THEN /\ ratings' = [ratings EXCEPT ![tasks[i].sess] = EmptyObj]
          /\ staffTouched' = [staffTouched EXCEPT ![tasks[i].sess] = FALSE]
          /\ staffErrors' = [staffErrors EXCEPT ![tasks[i].sess] = <<>>]
          /\ form' = [form EXCEPT ![tasks[i].sess] = FreshStaffForm]
          /\ saving' = [saving EXCEPT ![tasks[i].sess] = FALSE]
          /\ autocomplete' = [autocomplete EXCEPT ![tasks[i].sess] =
                                [@ EXCEPT !.selectedSuggestion = NoSuggestion,
                                          !.suggestions = <<>>,
                                          !.showSuggestions = FALSE]]
     ELSE UNCHANGED staffVars
  /\ tasks' = RemoveAt(tasks, i)
  /\ UNCHANGED << unitAudits, envVars, appVars, selectVars, reportVars, unitVars, boundVars >>

\* the catch block resetting the form as the success path does
staffWriteErrorClearing(i) ==
  /\ tasks[i].kind = "staff" /\ tasks[i].pc = "write"
  /\ alert' = [alert EXCEPT ![tasks[i].sess] = Alert("error", <<>>, <<>>)]
  /\ ratings' = [ratings EXCEPT ![tasks[i].sess] = EmptyObj]
  /\ form' = [form EXCEPT ![tasks[i].sess] = FreshStaffForm]
  /\ saving' = [saving EXCEPT ![tasks[i].sess] = FALSE]
  /\ tasks' = RemoveAt(tasks, i)
  /\ UNCHANGED << storeVars, envVars, appVars, selectVars, reportVars, unitVars,
                  staffErrors, staffTouched, boundVars, autocomplete >>

\* addDoc rejects: the catch block, then finally setSaving(false)
staffWriteError(i) ==
  /\ tasks[i].kind = "staff" /\ tasks[i].pc = "write"
  /\ alert' = [alert EXCEPT ![tasks[i].sess] = Alert("error", <<>>, <<>>)]
  /\ saving' = IF tasks[i].mounted
               THEN [saving EXCEPT ![tasks[i].sess] = FALSE] ELSE saving
  /\ tasks' = RemoveAt(tasks, i)
  /\ UNCHANGED << storeVars, envVars, appVars, selectVars, reportVars, unitVars, form, ratings,
                  staffErrors, staffTouched, boundVars, autocomplete >>

(***************************************************************************)
(* RetrieveReports: utilities.                                             *)
(***************************************************************************)
\* isoToDDMMYYYY without its test for d/m/yyyy
isoToDDMMYYYYReparsing(iso) ==
  IF ~Truthy(iso) THEN <<>>
  ELSE LET parts == split(iso, "-")
       IN  IF Len(parts) = 3
           THEN JoinDMY(padStart(parts[3], 2, "0"), padStart(parts[2], 2, "0"),
                        parts[1])
           ELSE IF DateParse(iso).valid THEN FormatLocal(DateParse(iso))
           ELSE iso

\* RetrieveReports isoToDDMMYYYY, for a string
isoToDDMMYYYY(iso) ==
  IF ~Truthy(iso) THEN <<>>
  ELSE IF MatchesDMY(iso) THEN iso
  ELSE LET parts == split(iso, "-")
       IN  IF Len(parts) = 3
           THEN JoinDMY(padStart(parts[3], 2, "0"), padStart(parts[2], 2, "0"),
                        parts[1])
           ELSE IF DateParse(iso).valid THEN FormatLocal(DateParse(iso))
           ELSE iso

\* Number(s) of a string: the strings met are digits, blank, or no number
ToNumber(s) ==
  IF trim(s) = <<>> THEN [nan |-> FALSE, val |-> 0]
  ELSE IF AllDigits(trim(s)) THEN [nan |-> FALSE, val |-> ParseNat(trim(s))]
  ELSE [nan |-> TRUE, val |-> 0]

RECURSIVE RollDays(_, _, _)
\* the calendar day that day number d of month m of year y is, d running over
\* the month's ends
RollDays(y, m, d) ==
  IF d < 1
  THEN (IF m = 1 THEN RollDays(y - 1, 12, d + 31)
        ELSE RollDays(y, m - 1, d + DaysInMonth(y, m - 1)))
  ELSE IF d > DaysInMonth(y, m)
  THEN (IF m = 12 THEN RollDays(y + 1, 1, d - 31)
        ELSE RollDays(y, m + 1, d - DaysInMonth(y, m)))
  ELSE LocalDate(y, m, d)

\* new Date(year, monthIndex, day) of three Number() results
DateOf(year, monthIndex, day) ==
  IF year.nan \/ monthIndex.nan \/ day.nan THEN InvalidDate
  ELSE LET y == IF year.val \in 0..99 THEN 1900 + year.val ELSE year.val
       IN  RollDays(y + (monthIndex.val \div 12), (monthIndex.val % 12) + 1, day.val)

\* Number(mStr) - 1
MonthIndex(n) == [n EXCEPT !.val = @ - 1]

\* parseDDMMYYYYtoDate; null is InvalidDate
parseDDMMYYYYtoDate(ddmmyy) ==
  IF ~Truthy(ddmmyy) THEN InvalidDate
  ELSE LET parts == split(StringOf(ddmmyy), "/")
       IN  IF Len(parts) # 3 THEN DateParse(ddmmyy)
           ELSE DateOf(ToNumber(parts[3]), MonthIndex(ToNumber(parts[2])),
                       ToNumber(parts[1]))

\* isoToLocalDate; null is InvalidDate
isoToLocalDate(iso) ==
  IF ~Truthy(iso) THEN InvalidDate
  ELSE LET parts == split(StringOf(iso), "-")
       IN  IF Len(parts) = 3
           THEN DateOf(ToNumber(parts[1]), MonthIndex(ToNumber(parts[2])),
                       ToNumber(parts[3]))
           ELSE DateParse(iso)

\* a < b for two dates whose times lie within their local days, b's time being
\* the start of its day
DayBefore(a, b) ==
  \/ a.year < b.year
  \/ a.year = b.year /\ a.month < b.month
  \/ a.year = b.year /\ a.month = b.month /\ a.day < b.day

\* withinRange with both bounds exclusive
withinRangeExclusive(dateDD, fromISO, toISO) ==
  LET d == parseDDMMYYYYtoDate(dateDD)
      from == IF Truthy(fromISO) THEN isoToLocalDate(fromISO) ELSE InvalidDate
      to == IF Truthy(toISO) THEN isoToLocalDate(toISO) ELSE InvalidDate
  IN  IF ~d.valid THEN FALSE
      ELSE IF ~Truthy(fromISO) /\ ~Truthy(toISO) THEN TRUE
      ELSE IF from.valid /\ ~DayBefore(from, d) THEN FALSE
      ELSE IF to.valid /\ ~DayBefore(d, to) THEN FALSE
      ELSE TRUE

\* withinRange: from is moved to the start of its day and to to the end of its
\* day, so d < from and d > to compare the days
withinRange(dateDD, fromISO, toISO) ==
  LET d == parseDDMMYYYYtoDate(dateDD)
      from == IF Truthy(fromISO) THEN isoToLocalDate(fromISO) ELSE InvalidDate
      to == IF Truthy(toISO) THEN isoToLocalDate(toISO) ELSE InvalidDate
  IN  IF ~d.valid THEN FALSE
      ELSE IF ~Truthy(fromISO) /\ ~Truthy(toISO) THEN TRUE
      ELSE IF from.valid /\ DayBefore(d, from) THEN FALSE
      ELSE IF to.valid /\ DayBefore(to, d) THEN FALSE
      ELSE TRUE

\* item.id ?? JSON.stringify(item)
idOf(item) ==
  IF "id" \in DOMAIN item THEN [id |-> item.id] ELSE [json |-> item]

RECURSIVE dedupeFrom(_, _)
\* the loop of dedupeById over the items left, `seen` being the ids met
dedupeFrom(arr, seen) ==
  IF arr = <<>> THEN <<>>
  ELSE IF idOf(Head(arr)) \in seen THEN dedupeFrom(Tail(arr), seen)
  ELSE << Head(arr) >> \o dedupeFrom(Tail(arr), seen \cup { idOf(Head(arr)) })

\* dedupeById keeping every item
dedupeByIdKeepAll(arr) == arr

dedupeById(arr) == dedupeFrom(arr, {})

\* d.ratings || {}
ratingsOf(d) == IF "ratings" \in DOMAIN d THEN d.ratings ELSE EmptyObj

\* String.prototype.endsWith
endsWith(s, suffix) ==
  Len(s) >= Len(suffix) /\ SubSeq(s, Len(s) - Len(suffix) + 1, Len(s)) = suffix

\* collectParameterNames: the names as a set (their order, that of the
\* objects' keys, is not kept)
collectParameterNames(docs) ==
  UNION { { k \in DOMAIN ratingsOf(docs[i]) :
              ~endsWith(k, <<"_","r","e","m","a","r","k","s">>) } :
          i \in 1..Len(docs) }

\* computeParameterStats counting every value that is set
computeParameterStatsAnyValue(docs) ==
  LET names == collectParameterNames(docs)
      rated(p) == { i \in 1..Len(docs) : Truthy(Lookup(ratingsOf(docs[i]), p)) }
      count(p, v) ==
        Cardinality({ i \in rated(p) : Lookup(ratingsOf(docs[i]), p) = v })
  IN  [ params |-> names,
        stats |-> [ p \in names |->
                      [ Excellent |-> count(p, Excellent), Good |-> count(p, Good),
                        Average |-> count(p, Average), Poor |-> count(p, Poor),
                        total |-> Cardinality(rated(p)) ] ] ]

computeParameterStats(docs) ==
  LET names == collectParameterNames(docs)
      rated(p) == { i \in 1..Len(docs) :
                      /\ Truthy(Lookup(ratingsOf(docs[i]), p))
                      /\ Lookup(ratingsOf(docs[i]), p) \in Range(ratingOptions) }
      count(p, v) ==
        Cardinality({ i \in rated(p) : Lookup(ratingsOf(docs[i]), p) = v })
  IN  [ params |-> names,
        stats |-> [ p \in names |->
                      [ Excellent |-> count(p, Excellent), Good |-> count(p, Good),
                        Average |-> count(p, Average), Poor |-> count(p, Poor),
                        total |-> Cardinality(rated(p)) ] ] ]

\* an average: the sum and the number of the scores it is the quotient of;
\* null when there are none
NullAvg == [sum |-> 0, n |-> 0]

\* avgScoreToLabel
avgScoreToLabel(avg) ==
  IF avg.n = 0 THEN <<"-">>
  ELSE IF avg.sum >= 90 * avg.n THEN Excellent
  ELSE IF avg.sum >= 75 * avg.n THEN Good
  ELSE IF avg.sum >= 60 * avg.n THEN Average
  ELSE Poor

\* r.empCode ? String(r.empCode).trim() : ""
TrimOrEmpty(v) == IF Truthy(v) THEN trim(StringOf(v)) ELSE <<>>

\* the Map key without toLowerCase
aggregateKeyAsTyped(r, i) ==
  LET code == TrimOrEmpty(Lookup(r, "empCode"))
      name == TrimOrEmpty(Lookup(r, "staffName"))
      k == IF code # <<>> THEN code ELSE name
  IN  IF k # <<>> THEN k ELSE <<"#">> \o NumToString(i)

\* the Map key of record number i: Math.random()'s string is a key that no
\* other record has
aggregateKey(r, i) ==
  LET code == TrimOrEmpty(Lookup(r, "empCode"))
      name == TrimOrEmpty(Lookup(r, "staffName"))
      k == toLowerCase(IF code # <<>> THEN code ELSE name)
  IN  IF k # <<>> THEN k ELSE <<"#">> \o NumToString(i)

\* d.scoreOutOf100 ?? d.totalMarks ?? d.total ?? null, then Number(s) unless
\* it is NaN: the scores a record adds to numericScores; a record's
\* scoreOutOf100 is a number, its totalMarks and total are strings
numericScore(d) ==
  IF "scoreOutOf100" \in DOMAIN d THEN << d.scoreOutOf100 >>
  ELSE LET s == IF "totalMarks" \in DOMAIN d THEN << d.totalMarks >>
                ELSE IF "total" \in DOMAIN d THEN << d.total >>
                ELSE <<>>
       IN  IF s # <<>> /\ ~ToNumber(s[1]).nan THEN << ToNumber(s[1]).val >> ELSE <<>>

\* a.createdAt && a.createdAt.seconds ? a.createdAt.seconds : 0
secondsOf(d) == IF "createdAt" \in DOMAIN d THEN d.createdAt ELSE 0

\* (latest.selection && latest.selection.branch) || latest.branch || "-"
placeOf(d, field) ==
  IF "selection" \in DOMAIN d /\ Truthy(Lookup(d.selection, field))
  THEN d.selection[field]
  ELSE IF Truthy(Lookup(d, field)) THEN d[field]
  ELSE <<"-">>

\* the collation order of the characters of the names: space, digits, letters
Collation ==
  <<" ","0","1","2","3","4","5","6","7","8","9">> \o LowerLetters

Rank(c) == CHOOSE i \in 1..Len(Collation) : Collation[i] = LowerChar(c)

RECURSIVE localeCompare(_, _)
\* a.localeCompare(b) < 0 for names over these characters: the letters decide
\* whatever their case; between names that differ in case only, the one with
\* the lower-case letter at the first difference comes first
localeCompare(a, b) ==
  LET first == CHOOSE i \in 1..(Len(a) + 1) :
                 /\ \A j \in 1..(i - 1) : j <= Len(b) /\ Rank(a[j]) = Rank(b[j])
                 /\ (i > Len(a) \/ i > Len(b) \/ Rank(a[i]) # Rank(b[i]))
      cased == { i \in 1..Len(a) : a[i] # b[i] }
  IN  IF first > Len(a) THEN
        IF Len(b) > Len(a) THEN TRUE
        ELSE cased # {} /\ a[CHOOSE i \in cased : \A j \in cased : i <= j] \in Range(LowerLetters)
      ELSE IF first > Len(b) THEN FALSE
      ELSE Rank(a[first]) < Rank(b[first])

RECURSIVE insertByName(_, _)
\* x put behind every aggregate that does not sort after it
insertByName(sorted, x) ==
  IF sorted = <<>> THEN << x >>
  ELSE IF localeCompare(x.staffName, Head(sorted).staffName)
  THEN << x >> \o sorted
  ELSE << Head(sorted) >> \o insertByName(Tail(sorted), x)

RECURSIVE sortByName(_)
\* out.sort by staffName; the sort is stable
sortByName(out) ==
  IF out = <<>> THEN <<>>
  ELSE insertByName(sortByName(SubSeq(out, 1, Len(out) - 1)), out[Len(out)])

\* the positions 1..n, in order
Positions(n) == [i \in 1..n |-> i]

\* employeesAggregated: one row per employee from the results
employeesAggregated(results) ==
  LET keys == [i \in 1..Len(results) |-> aggregateKey(results[i], i)]
      firsts == SelectSeq(Positions(Len(results)),
                          LAMBDA i : \A j \in 1..(i - 1) : keys[j] # keys[i])
      aggregate(i) ==
        LET members == SelectSeq(Positions(Len(results)), LAMBDA j : keys[j] = keys[i])
            recs == [k \in 1..Len(members) |-> results[members[k]]]
            latest == recs[CHOOSE k \in 1..Len(recs) :
                             /\ \A l \in 1..Len(recs) : secondsOf(recs[l]) <= secondsOf(recs[k])
                             /\ \A l \in 1..(k - 1) : secondsOf(recs[l]) < secondsOf(recs[k])]
            numeric == SelectSeq(recs, LAMBDA d : numericScore(d) # <<>>)
            scores == [k \in 1..Len(numeric) |-> numericScore(numeric[k])[1]]
            avg == IF Len(scores) # 0
                   THEN [sum |-> SumSeq(scores), n |-> Len(scores)] ELSE NullAvg
        IN  [ empCode |-> TrimOrEmpty(Lookup(results[i], "empCode")),
              staffName |-> TrimOrEmpty(Lookup(results[i], "staffName")),
              count |-> Len(recs),
              avg |-> avg,
              label |-> avgScoreToLabel(avg),
              branch |-> placeOf(latest, "branch"),
              city |-> placeOf(latest, "city") ]
  IN  sortByName([k \in 1..Len(firsts) |-> aggregate(firsts[k])])

(***************************************************************************)
(* RetrieveReports: state and handlers.                                    *)
(***************************************************************************)
NoSummary == [saved |-> FALSE, employees |-> <<>>, params |-> {}, stats |-> EmptyObj]

\* the useState initial values; summary is the content of the last summary PDF
FreshReport ==
  [ branch |-> <<>>, reportType |-> "unit", dateFromISO |-> <<>>, dateToISO |-> <<>>,
    loading |-> FALSE, results |-> <<>>, message |-> "none", summary |-> NoSummary ]

\* selectedEmployee when it is null
NoEmployee == [null |-> TRUE]

\* no employee PDF saved yet
NoPdf == [saved |-> FALSE]

\* the useState initial values of the employee detail state; pdf is the
\* content of the last employee PDF
FreshDetail ==
  [ selectedEmployee |-> NoEmployee, employeeHistory |-> <<>>, loadingHistory |-> FALSE,
    employeeAverages |-> EmptyObj, viewMode |-> "list", pdf |-> NoPdf ]

\* { id: d.id, ...d.data() } of the document at position k of a collection
docOf(coll, k) ==
  [ f \in (DOMAIN coll[k]) \cup {"id"} |->
      IF f \in DOMAIN coll[k] THEN coll[k][f] ELSE k ]

\* the documents at the positions pos of a collection, latest first:
\* orderBy(..., "desc") on the time of the write
latestFirst(coll, pos) ==
  LET ks == SelectSeq(Positions(Len(coll)), LAMBDA k : k \in pos)
  IN  [ j \in 1..Len(ks) |-> docOf(coll, ks[Len(ks) + 1 - j]) ]

\* query(unitAudits, where("branch", "==", branch), where("date", "==", dateDD),
\*       orderBy("timestamp", "desc"))
unitReportDocs(branch, dateDD) ==
  latestFirst(unitAudits,
              { k \in 1..Len(unitAudits) :
                  unitAudits[k].branch = branch /\ unitAudits[k].date = dateDD })

\* query(staffEvaluations, where("selection.branch", "==", branch),
\*       orderBy("createdAt", "desc"))
staffReportDocs(branch) ==
  latestFirst(staffEvaluations,
              { k \in 1..Len(staffEvaluations) :
                  /\ "selection" \in DOMAIN staffEvaluations[k]
                  /\ Lookup(staffEvaluations[k].selection, "branch") = branch })

\* r.selection?.date ?? r.date ?? ""
recordDate(r) ==
  IF "selection" \in DOMAIN r /\ "date" \in DOMAIN r.selection THEN r.selection.date
  ELSE IF "date" \in DOMAIN r THEN r.date
  ELSE <<>>

\* runQuery up to its await: the resets, the checks of the inputs, then the
\* query is sent
runQuery(s) ==
  /\ s \in clients
  /\ page[s] = "retrieve"
  /\ ~report[s].loading
  /\ LET r == [report[s] EXCEPT !.results = <<>>, !.message = "none"]
         target == IF Truthy(r.dateFromISO) THEN r.dateFromISO ELSE r.dateToISO
     IN  IF ~Truthy(r.branch)
         THEN /\ report' = [report EXCEPT ![s] = [r EXCEPT !.message = "select branch"]]
              /\ UNCHANGED tasks
         ELSE IF r.reportType = "staff" /\ ~Truthy(r.dateFromISO) /\ ~Truthy(r.dateToISO)
         THEN /\ report' = [report EXCEPT ![s] = [r EXCEPT !.message = "pick range"]]
              /\ UNCHANGED tasks
         ELSE IF r.reportType = "unit" /\ ~Truthy(target)
         THEN /\ report' = [report EXCEPT ![s] = [r EXCEPT !.message = "select date"]]
              /\ UNCHANGED tasks
         ELSE /\ Len(tasks) < cfg.inflight
              /\ report' = [report EXCEPT ![s] = [r EXCEPT !.loading = TRUE]]
              /\ tasks' = Append(tasks,
                   [ sess |-> s, kind |-> "report", pc |-> "query", mounted |-> TRUE,
                     answer |-> "none",
                     reportType |-> r.reportType,
                     branch |-> r.branch,
                     dateDD |-> isoToDDMMYYYY(target),
                     dateFromISO |-> r.dateFromISO,
                     dateToISO |-> r.dateToISO ])
  /\ detail' = [detail EXCEPT ![s] = [FreshDetail EXCEPT !.pdf = detail[s].pdf]]
  /\ UNCHANGED << storeVars, envVars, appVars, selectVars, unitVars, staffVars,
                  alert, boundVars >>

\* what runQuery makes of a snapshot: the staff documents within the range,
\* each id once
staffReportResults(docs, fromISO, toISO) ==
  dedupeById(SelectSeq(docs, LAMBDA r : withinRange(recordDate(r), fromISO, toISO)))

\* getDocs resolves: the results and the message, then finally
\* setLoading(false)
runQueryDone(i) ==
  /\ tasks[i].kind = "report" /\ tasks[i].pc = "query"
  /\ LET t == tasks[i]
         docs == IF t.reportType = "unit"
                 THEN dedupeById(unitReportDocs(t.branch, t.dateDD))
                 ELSE staffReportResults(staffReportDocs(t.branch),
                                         t.dateFromISO, t.dateToISO)
     IN  report' = IF t.mounted
                   THEN [report EXCEPT ![t.sess] =
                           [@ EXCEPT !.results = docs,
                                     !.message = IF docs # <<>> THEN "found"
                                                 ELSE "none found",
                                     !.loading = FALSE]]
                   ELSE report
  /\ tasks' = RemoveAt(tasks, i)
  /\ UNCHANGED << storeVars, envVars, appVars, selectVars, detail, unitVars, staffVars,
                  alert, boundVars >>

\* getDocs rejects: the error message, then finally setLoading(false)
runQueryError(i) ==
  /\ tasks[i].kind = "report" /\ tasks[i].pc = "query"
  /\ report' = IF tasks[i].mounted
                THEN [report EXCEPT ![tasks[i].sess] =
                        [@ EXCEPT !.message = "error", !.loading = FALSE]]
                ELSE report
  /\ tasks' = RemoveAt(tasks, i)
  /\ UNCHANGED << storeVars, envVars, appVars, selectVars, detail, unitVars, staffVars,
                  alert, boundVars >>

\* downloadSummaryPDF: the employee rows and the parameter statistics of the
\* results go into the document
downloadSummaryPDF(s) ==
  /\ s \in clients
  /\ page[s] = "retrieve"
  /\ report[s].reportType = "staff"
  /\ IF report[s].results = <<>>
     THEN /\ alert' = [alert EXCEPT ![s] = Alert("no evaluations", <<>>, <<>>)]
          /\ UNCHANGED report
     ELSE /\ report' = [report EXCEPT ![s].summary =
                          [ saved |-> TRUE,
                            employees |-> employeesAggregated(report[s].results),
                            params |-> computeParameterStats(report[s].results).params,
                            stats |-> computeParameterStats(report[s].results).stats ]]
          /\ UNCHANGED alert
  /\ UNCHANGED << storeVars, envVars, appVars, selectVars, detail, unitVars, staffVars,
                  tasks, boundVars >>

(***************************************************************************)
(* StaffEvaluation: the lookups that fill in the staff details.            *)
(***************************************************************************)
\* String.prototype.startsWith
startsWith(str, prefix) ==
  Len(str) >= Len(prefix) /\ SubSeq(str, 1, Len(prefix)) = prefix

\* the positions of the documents of staffEvaluations, latest first
\* (orderBy("createdAt", "desc"))
latestPositions == [ j \in 1..Len(staffEvaluations) |-> Len(staffEvaluations) + 1 - j ]

\* query(col, where("empCode", "==", byEmpCode), orderBy("createdAt", "desc"),
\* limit(1)): the documents of the snapshot
latestStaffDocs(byEmpCode) ==
  LET ks == SelectSeq(latestPositions,
                      LAMBDA k : Lookup(staffEvaluations[k], "empCode") = byEmpCode)
  IN  IF ks = <<>> THEN <<>> ELSE << staffEvaluations[ks[1]] >>

\* the suggestion made of a document
suggestionOf(data) ==
  [ staffName |-> trim(OrEmpty(Lookup(data, "staffName"))),
    empCode |-> trim(OrEmpty(Lookup(data, "empCode"))),
    designation |-> OrEmpty(Lookup(data, "designation")) ]

\* the unique array searchStaffNames builds for a prefix: the documents,
\* latest first, whose name starts with the prefix whatever the case, one
\* for each pair of name in lower case and code
staffSuggestions(prefix) ==
  LET prefixLower == toLowerCase(trim(prefix))
      key(k) == << toLowerCase(suggestionOf(staffEvaluations[k]).staffName),
                   suggestionOf(staffEvaluations[k]).empCode >>
      hit(k) == /\ suggestionOf(staffEvaluations[k]).staffName # <<>>
                /\ startsWith(toLowerCase(suggestionOf(staffEvaluations[k]).staffName),
                              prefixLower)
      hits == SelectSeq(latestPositions, hit)
      firsts == SelectSeq(Positions(Len(hits)),
                          LAMBDA j : \A l \in 1..(j - 1) : key(hits[l]) # key(hits[j]))
  IN  [ j \in 1..Len(firsts) |-> suggestionOf(staffEvaluations[hits[firsts[j]]]) ]

\* searchStaffNames(form.staffName), by the Lookup button or by the debounced
\* effect of typing: without a prefix the suggestions are cleared, else the
\* latest documents are asked for
searchStaffNames(s) ==
  /\ s \in clients
  /\ page[s] = "staff"
  /\ ~autocomplete[s].lookingUp
  /\ IF ~Truthy(form[s].staffName) \/ trim(form[s].staffName) = <<>>
     THEN /\ autocomplete' = [autocomplete EXCEPT ![s] =
                                [@ EXCEPT !.suggestions = <<>>, !.showSuggestions = FALSE]]
          /\ UNCHANGED tasks
     ELSE /\ Len(tasks) < cfg.inflight
          /\ autocomplete' = [autocomplete EXCEPT ![s].lookingUp = TRUE]
          /\ tasks' = Append(tasks,
               [ sess |-> s, kind |-> "search", pc |-> "query", mounted |-> TRUE,
                 answer |-> "none", prefix |-> form[s].staffName ])
  /\ UNCHANGED << storeVars, envVars, appVars, selectVars, reportVars, unitVars, form, ratings,
                  staffErrors, staffTouched, saving, alert, boundVars >>

\* getDocs of searchStaffNames resolves: the suggestions, then finally
\* setLookingUp(false)
searchDone(i) ==
  /\ tasks[i].kind = "search"
  /\ autocomplete' =
       IF tasks[i].mounted
       THEN [autocomplete EXCEPT ![tasks[i].sess] =
               [@ EXCEPT !.suggestions = staffSuggestions(tasks[i].prefix),
                         !.showSuggestions = staffSuggestions(tasks[i].prefix) # <<>>,
                         !.lookingUp = FALSE]]
       ELSE autocomplete
  /\ tasks' = RemoveAt(tasks, i)
  /\ UNCHANGED << storeVars, envVars, appVars, selectVars, reportVars, unitVars, form, ratings,
                  staffErrors, staffTouched, saving, alert, boundVars >>

\* getDocs of searchStaffNames rejects
searchError(i) ==
  /\ tasks[i].kind = "search"
  /\ autocomplete' =
       IF tasks[i].mounted
       THEN [autocomplete EXCEPT ![tasks[i].sess] =
               [@ EXCEPT !.suggestions = <<>>, !.showSuggestions = FALSE,
                         !.lookingUp = FALSE]]
       ELSE autocomplete
  /\ tasks' = RemoveAt(tasks, i)
  /\ UNCHANGED << storeVars, envVars, appVars, selectVars, reportVars, unitVars, form, ratings,
                  staffErrors, staffTouched, saving, alert, boundVars >>

\* a suggestion of the list is clicked: handleSuggestionClick, pickSuggestion
\* (the suggestions of searchStaffNames carry their document, so nothing is
\* fetched)
pickSuggestion(s) ==
  /\ s \in clients
  /\ page[s] = "staff"
  /\ autocomplete[s].showSuggestions
  /\ \E k \in 1..Len(autocomplete[s].suggestions) :
       LET sugg == autocomplete[s].suggestions[k]
       IN  /\ autocomplete' = [autocomplete EXCEPT ![s] =
                                 [@ EXCEPT !.selectedSuggestion = sugg,
                                           !.suggestions = <<>>,
                                           !.showSuggestions = FALSE]]
           /\ form' = [form EXCEPT ![s] = [@ EXCEPT !.staffName = sugg.staffName,
                                                    !.empCode = sugg.empCode,
                                                    !.designation = sugg.designation]]
  /\ UNCHANGED << storeVars, envVars, appVars, selectVars, reportVars, unitVars, ratings,
                  staffErrors, staffTouched, saving, runVars, boundVars >>

\* the Reset button, rendered while a suggestion is selected
resetSelection(s) ==
  /\ s \in clients
  /\ page[s] = "staff"
  /\ autocomplete[s].selectedSuggestion # NoSuggestion
  /\ autocomplete' = [autocomplete EXCEPT ![s].selectedSuggestion = NoSuggestion]
  /\ form' = [form EXCEPT ![s] = [@ EXCEPT !.empCode = <<>>, !.designation = <<>>]]
  /\ UNCHANGED << storeVars, envVars, appVars, selectVars, reportVars, unitVars, ratings,
                  staffErrors, staffTouched, saving, runVars, boundVars >>

\* the Emp Code field loses the focus: with a code of two characters or more
\* and no suggestion selected, fetchLatestStaff({ byEmpCode }) is sent; the
\* handler keeps the form of its render
empCodeBlur(s) ==
  /\ s \in clients
  /\ page[s] = "staff"
  /\ Truthy(form[s].empCode)
  /\ Len(trim(form[s].empCode)) >= 2
  /\ autocomplete[s].selectedSuggestion = NoSuggestion
  /\ Len(tasks) < cfg.inflight
  /\ autocomplete' = [autocomplete EXCEPT ![s].lookingUp = TRUE]
  /\ tasks' = Append(tasks,
       [ sess |-> s, kind |-> "latest", pc |-> "query", mounted |-> TRUE,
         answer |-> "none", byEmpCode |-> trim(form[s].empCode), form |-> form[s] ])
  /\ UNCHANGED << storeVars, envVars, appVars, selectVars, reportVars, unitVars, form, ratings,
                  staffErrors, staffTouched, saving, alert, boundVars >>

\* fetchLatestStaff resolves with a document: setLookingUp(false), then the
\* blur handler selects it and writes its name and designation into the form
latestStaffFound(i) ==
  /\ tasks[i].kind = "latest"
  /\ latestStaffDocs(tasks[i].byEmpCode) # <<>>
  /\ LET last == latestStaffDocs(tasks[i].byEmpCode)[1]
         s == tasks[i].sess
     IN  IF tasks[i].mounted
         THEN /\ autocomplete' = [autocomplete EXCEPT ![s] =
                   [@ EXCEPT !.lookingUp = FALSE,
                             !.selectedSuggestion =
                               [ staffName |-> Lookup(last, "staffName"),
                                 empCode |-> Lookup(last, "empCode"),
                                 designation |-> Lookup(last, "designation") ]]]
              /\ form' = [form EXCEPT ![s] =
                   [@ EXCEPT !.staffName = Lookup(last, "staffName"),
                             !.designation = Lookup(last, "designation")]]
         ELSE UNCHANGED << autocomplete, form >>
  /\ tasks' = RemoveAt(tasks, i)
  /\ UNCHANGED << storeVars, envVars, appVars, selectVars, reportVars, unitVars, ratings,
                  staffErrors, staffTouched, saving, alert, boundVars >>

\* fetchLatestStaff resolves empty, or getDocs rejects: setLookingUp(false)
\* and null
latestStaffNone(i) ==
  /\ tasks[i].kind = "latest"
  /\ autocomplete' = IF tasks[i].mounted
                      THEN [autocomplete EXCEPT ![tasks[i].sess].lookingUp = FALSE]
                      ELSE autocomplete
  /\ tasks' = RemoveAt(tasks, i)
  /\ UNCHANGED << storeVars, envVars, appVars, selectVars, reportVars, unitVars, form, ratings,
                  staffErrors, staffTouched, saving, alert, boundVars >>

(***************************************************************************)
(* RetrieveReports: the month presets of the date range.                   *)
(***************************************************************************)
\* a number as Number() gives it
Num(n) == [nan |-> FALSE, val |-> n]

\* toISOString().slice(0, 10) of a Date at its local midnight: the calendar
\* day in UTC, which is the day before in a zone ahead of UTC
toISODate(d) ==
  LET utc == IF cfg.zone > 0 THEN PrevDay(d) ELSE d
  IN  padStart(NumToString(utc.year), 4, "0") \o <<"-">>
      \o padStart(NumToString(utc.month), 2, "0") \o <<"-">>
      \o padStart(NumToString(utc.day), 2, "0")

\* setPresetMonth(year, monthIndex)
setPresetMonth(s, year, monthIndex) ==
  LET from == DateOf(Num(year), Num(monthIndex), Num(1))
      to == DateOf(Num(year), Num(monthIndex + 1), Num(0))
  IN  report' = [report EXCEPT ![s] = [@ EXCEPT !.dateFromISO = toISODate(from),
                                               !.dateToISO = toISODate(to)]]

\* the This month button, the browser's clock showing the day now
presetThisMonth(s, now) ==
  /\ s \in clients
  /\ page[s] = "retrieve"
  /\ setPresetMonth(s, now.year, now.month - 1)
  /\ UNCHANGED << storeVars, envVars, appVars, selectVars, detail, unitVars, staffVars,
                  runVars, boundVars >>

\* the Last month button, the browser's clock showing the day now
presetLastMonth(s, now) ==
  /\ s \in clients
  /\ page[s] = "retrieve"
  /\ LET prev == DateOf(Num(now.year), Num(now.month - 2), Num(1))
     IN  setPresetMonth(s, prev.year, prev.month - 1)
  /\ UNCHANGED << storeVars, envVars, appVars, selectVars, detail, unitVars, staffVars,
                  runVars, boundVars >>

\* the Clear button
presetClear(s) ==
  /\ s \in clients
  /\ page[s] = "retrieve"
  /\ report' = [report EXCEPT ![s] = [@ EXCEPT !.dateFromISO = <<>>, !.dateToISO = <<>>]]
  /\ UNCHANGED << storeVars, envVars, appVars, selectVars, detail, unitVars, staffVars,
                  runVars, boundVars >>

(***************************************************************************)
(* RetrieveReports: the history of one employee.                           *)
(***************************************************************************)
\* query(staffEvaluations, where(field, "==", value), orderBy("createdAt", "desc"))
historyDocs(field, value) ==
  latestFirst(staffEvaluations,
              { k \in 1..Len(staffEvaluations) :
                  Lookup(staffEvaluations[k], field) = value })

\* d.scoreOutOf100 ?? d.totalMarks ?? d.score?.scoreOutOf100 ?? null, then
\* Number(s) unless it is NaN
historyScore(d) ==
  IF "scoreOutOf100" \in DOMAIN d THEN << d.scoreOutOf100 >>
  ELSE IF "totalMarks" \in DOMAIN d
  THEN (IF ~ToNumber(d.totalMarks).nan THEN << ToNumber(d.totalMarks).val >> ELSE <<>>)
  ELSE IF "score" \in DOMAIN d /\ "scoreOutOf100" \in DOMAIN d.score
  THEN << d.score.scoreOutOf100 >>
  ELSE <<>>

\* the documents of a snapshot that fetchEmployeeHistory keeps: each id once,
\* within the range when one of its bounds is set
historyRows(docs, fromISO, toISO) ==
  LET ds == dedupeById(docs)
  IN  dedupeById(IF Truthy(fromISO) \/ Truthy(toISO)
                 THEN SelectSeq(ds, LAMBDA r : withinRange(recordDate(r), fromISO, toISO))
                 ELSE ds)

\* { avg, count, label } of the rows kept
historyAverages(docs) ==
  LET numeric == SelectSeq(docs, LAMBDA d : historyScore(d) # <<>>)
      scores == [k \in 1..Len(numeric) |-> historyScore(numeric[k])[1]]
      avg == IF Len(scores) # 0 THEN [sum |-> SumSeq(scores), n |-> Len(scores)]
             ELSE NullAvg
  IN  [ avg |-> avg, count |-> Len(docs), label |-> avgScoreToLabel(avg) ]

\* the state fetchEmployeeHistory sets before its first await
historyStarted(d, empCode, staffName) ==
  [ d EXCEPT !.selectedEmployee = [empCode |-> empCode, staffName |-> staffName],
             !.loadingHistory = TRUE,
             !.employeeHistory = <<>>,
             !.employeeAverages = EmptyObj ]

\* the state after a snapshot that is null or empty
historyNone(d, openDetail) ==
  [ d EXCEPT !.employeeHistory = <<>>,
             !.employeeAverages = EmptyObj,
             !.loadingHistory = FALSE,
             !.viewMode = IF openDetail THEN "employee" ELSE @ ]

\* fetchEmployeeHistory up to its first await in session s, d being the
\* detail state the click left: the query by employee code is sent when there
\* is a code, else the query by name when there is a name, else the snapshot
\* is null
fetchEmployeeHistory(s, d, empCode, staffName, openDetail) ==
  IF ~Truthy(empCode) /\ ~Truthy(staffName)
  THEN /\ detail' = [detail EXCEPT ![s] =
                       historyNone(historyStarted(d, empCode, staffName), openDetail)]
       /\ report' = [report EXCEPT ![s].message = "no history"]
       /\ UNCHANGED tasks
  ELSE /\ Len(tasks) < cfg.inflight
       /\ detail' = [detail EXCEPT ![s] = historyStarted(d, empCode, staffName)]
       /\ tasks' = Append(tasks,
            [ sess |-> s, kind |-> "history",
              pc |-> IF Truthy(empCode) THEN "byCode" ELSE "byName",
              mounted |-> TRUE, answer |-> "none",
              empCode |-> empCode, staffName |-> staffName,
              openDetail |-> openDetail,
              dateFromISO |-> report[s].dateFromISO,
              dateToISO |-> report[s].dateToISO ])
       /\ UNCHANGED report

\* the rows of the staff results table
employeeRows(s) == employeesAggregated(report[s].results)

\* the employee's name or the Open button of a row of the results table
openEmployee(s) ==
  /\ s \in clients
  /\ page[s] = "retrieve"
  /\ report[s].reportType = "staff"
  /\ \E emp \in Range(employeeRows(s)) :
       fetchEmployeeHistory(s, detail[s], emp.empCode, emp.staffName, TRUE)
  /\ UNCHANGED << storeVars, envVars, appVars, selectVars, unitVars, staffVars,
                  alert, boundVars >>

\* downloadEmployeePDF(emp) as the render with detail state d defines it: the
\* rows and the average of that render go into the document
downloadEmployeePDF(d, emp, button) ==
  [ saved |-> TRUE, button |-> button,
    empCode |-> emp.empCode, staffName |-> emp.staffName,
    rows |-> d.employeeHistory,
    averages |-> d.employeeAverages ]

\* the PDF button of a row of the results table: setSelectedEmployee(emp),
\* fetchEmployeeHistory without opening the detail view, downloadEmployeePDF(emp)
downloadRowPDF(s) ==
  /\ s \in clients
  /\ page[s] = "retrieve"
  /\ report[s].reportType = "staff"
  /\ \E emp \in Range(employeeRows(s)) :
       fetchEmployeeHistory(s,
         [ detail[s] EXCEPT !.pdf = downloadEmployeePDF(detail[s], emp, "row") ],
         emp.empCode, emp.staffName, FALSE)
  /\ UNCHANGED << storeVars, envVars, appVars, selectVars, unitVars, staffVars,
                  alert, boundVars >>

\* whether the employee detail view is rendered
detailShown(s) ==
  /\ page[s] = "retrieve"
  /\ detail[s].viewMode = "employee"
  /\ detail[s].selectedEmployee # NoEmployee

\* the Download person PDF button of the detail view, rendered when the
\* history is loaded and not empty
downloadPersonPDF(s) ==
  /\ s \in clients
  /\ detailShown(s)
  /\ ~detail[s].loadingHistory
  /\ detail[s].employeeHistory # <<>>
  /\ detail' = [detail EXCEPT ![s].pdf =
                  downloadEmployeePDF(detail[s], detail[s].selectedEmployee, "person")]
  /\ UNCHANGED << storeVars, envVars, appVars, selectVars, report, unitVars, staffVars,
                  runVars, boundVars >>

\* the Back button of the detail view
handleBackFromEmployee(s) ==
  /\ s \in clients
  /\ detailShown(s)
  /\ detail' = [detail EXCEPT ![s].viewMode = "list"]
  /\ UNCHANGED << storeVars, envVars, appVars, selectVars, report, unitVars, staffVars,
                  runVars, boundVars >>

\* fetchEmployeeHistory after a snapshot with documents docs: the rows, the
\* average, the detail view, then finally setLoadingHistory(false)
historyLoaded(i, docs) ==
  LET t == tasks[i]
      rows == historyRows(docs, t.dateFromISO, t.dateToISO)
  IN  /\ detail' = IF ~t.mounted THEN detail
                   ELSE IF docs = <<>>
                   THEN [detail EXCEPT ![t.sess] = historyNone(@, t.openDetail)]
                   ELSE [detail EXCEPT ![t.sess] =
                           [@ EXCEPT !.employeeHistory = rows,
                                     !.employeeAverages = historyAverages(rows),
                                     !.viewMode = IF t.openDetail THEN "employee" ELSE @,
                                     !.loadingHistory = FALSE]]
      /\ report' = IF t.mounted /\ docs = <<>>
                   THEN [report EXCEPT ![t.sess].message = "no history"]
                   ELSE report
      /\ tasks' = RemoveAt(tasks, i)

\* the query by employee code resolves: with documents, or without and there
\* is no name to ask for
historyByCode(i) ==
  /\ tasks[i].kind = "history" /\ tasks[i].pc = "byCode"
  /\ LET docs == historyDocs("empCode", tasks[i].empCode)
     IN  /\ docs # <<>> \/ ~Truthy(tasks[i].staffName)
         /\ historyLoaded(i, docs)
  /\ UNCHANGED << storeVars, envVars, appVars, selectVars, unitVars, staffVars,
                  alert, boundVars >>

\* the query by employee code resolves empty: the query by name is sent
historyByCodeEmpty(i) ==
  /\ tasks[i].kind = "history" /\ tasks[i].pc = "byCode"
  /\ historyDocs("empCode", tasks[i].empCode) = <<>>
  /\ Truthy(tasks[i].staffName)
  /\ tasks' = [tasks EXCEPT ![i].pc = "byName"]
  /\ UNCHANGED << storeVars, envVars, appVars, selectVars, reportVars, unitVars, staffVars,
                  alert, boundVars >>

\* the query by name resolves
historyByName(i) ==
  /\ tasks[i].kind = "history" /\ tasks[i].pc = "byName"
  /\ historyLoaded(i, historyDocs("staffName", tasks[i].staffName))
  /\ UNCHANGED << storeVars, envVars, appVars, selectVars, unitVars, staffVars,
                  alert, boundVars >>

\* getDocs rejects: the error message, the detail view, then finally
\* setLoadingHistory(false)
historyError(i) ==
  /\ tasks[i].kind = "history"
  /\ detail' = IF tasks[i].mounted
                THEN [detail EXCEPT ![tasks[i].sess] =
                        [@ EXCEPT !.viewMode = IF tasks[i].openDetail THEN "employee" ELSE @,
                                  !.loadingHistory = FALSE]]
                ELSE detail
  /\ report' = IF tasks[i].mounted
                THEN [report EXCEPT ![tasks[i].sess].message = "history error"]
                ELSE report
  /\ tasks' = RemoveAt(tasks, i)
  /\ UNCHANGED << storeVars, envVars, appVars, selectVars, unitVars, staffVars,
                  alert, boundVars >>

(***************************************************************************)
(* App: the page switch.  A component that leaves the page is unmounted    *)
(* and loses its state; the component that enters starts from its initial  *)
(* state; handlers still awaiting the store run on.                        *)
(***************************************************************************)
unmountAll(ts, s) ==
  [ i \in 1..Len(ts) |->
      IF ts[i].sess = s THEN [ts[i] EXCEPT !.mounted = FALSE] ELSE ts[i] ]

\* setPage(newPage) in session s, the running handlers being ts
GoTo(s, newPage, ts) ==
  /\ page' = [page EXCEPT ![s] = newPage]
  /\ IF page[s] = newPage
     THEN /\ tasks' = ts
          /\ UNCHANGED << selectVars, reportVars, unitVars, staffVars >>
     ELSE /\ tasks' = unmountAll(ts, s)
          /\ selBranch' = [selBranch EXCEPT ![s] = <<>>]
          /\ selType' = [selType EXCEPT ![s] = ""]
          /\ formData' = [formData EXCEPT ![s] = FreshForm]
          /\ liveScores' = [liveScores EXCEPT ![s] = scoresOf(FreshForm)]
          /\ unitErrors' = [unitErrors EXCEPT ![s] = <<>>]
          /\ unitTouched' = [unitTouched EXCEPT ![s] = FALSE]
          /\ form' = [form EXCEPT ![s] = FreshStaffForm]
          /\ ratings' = [ratings EXCEPT ![s] = EmptyObj]
          /\ staffErrors' = [staffErrors EXCEPT ![s] = <<>>]
          /\ staffTouched' = [staffTouched EXCEPT ![s] = FALSE]
          /\ saving' = [saving EXCEPT ![s] = FALSE]
          /\ autocomplete' = [autocomplete EXCEPT ![s] = FreshAutocomplete]
          /\ report' = [report EXCEPT ![s] = FreshReport]
          /\ detail' = [detail EXCEPT ![s] = FreshDetail]

\* App handleSelection, the running handlers being ts
handleSelection(s, data, ts) ==
  /\ selection' = [selection EXCEPT ![s] = data]
  /\ GoTo(s, IF data.type = "unit" THEN "unit" ELSE "staff", ts)

\* a Back button that waits for the signed-in user
goBackWhenAuthed(s) ==
  /\ s \in clients
  /\ authed[s]
  /\ page[s] \in {"unit", "staff", "retrieve"}
  /\ GoTo(s, "select", tasks)
  /\ UNCHANGED << storeVars, envVars, selection, authVars, alert, boundVars >>

\* App goBack, the Back button of the three pages
goBack(s) ==
  /\ s \in clients
  /\ page[s] \in {"unit", "staff", "retrieve"}
  /\ GoTo(s, "select", tasks)
  /\ UNCHANGED << storeVars, envVars, selection, authVars, alert, boundVars >>

\* the Retrieve Reports button of SelectPage
onOpenRetrieve(s) ==
  /\ s \in clients
  /\ page[s] = "select"
  /\ GoTo(s, "retrieve", tasks)
  /\ UNCHANGED << storeVars, envVars, selection, authVars, alert, boundVars >>

\* signInAnonymously resolves and the listener of onAuthStateChanged is
\* called with the user: setAuthed(true)
signInDone(s) ==
  /\ s \in clients
  /\ signIn[s] = "pending"
  /\ signIn' = [signIn EXCEPT ![s] = "done"]
  /\ authed' = [authed EXCEPT ![s] = TRUE]
  /\ UNCHANGED << storeVars, envVars, page, selection, selectVars, reportVars,
                  unitVars, staffVars, runVars, boundVars >>

\* signInAnonymously rejects: tryAnonSignIn logs the error
signInFailed(s) ==
  /\ s \in clients
  /\ signIn[s] = "pending"
  /\ signIn' = [signIn EXCEPT ![s] = "failed"]
  /\ UNCHANGED << storeVars, envVars, page, selection, authed, selectVars, reportVars,
                  unitVars, staffVars, runVars, boundVars >>

(***************************************************************************)
(* SelectPage.                                                             *)
(***************************************************************************)
\* the branch select element changes
setBranch(s) ==
  /\ s \in clients
  /\ page[s] = "select"
  /\ \E b \in Branches \cup {<<>>} :
       /\ b # selBranch[s]
       /\ selBranch' = [selBranch EXCEPT ![s] = b]
  /\ UNCHANGED << storeVars, envVars, appVars, selType, unitVars, staffVars, reportVars,
                  runVars, boundVars >>

\* the type select element changes
setType(s) ==
  /\ s \in clients
  /\ page[s] = "select"
  /\ \E t \in {"", "unit", "staff"} :
       /\ t # selType[s]
       /\ selType' = [selType EXCEPT ![s] = t]
  /\ UNCHANGED << storeVars, envVars, appVars, selBranch, unitVars, staffVars, reportVars,
                  runVars, boundVars >>

\* the selection object handleSubmit builds
selectionOf(branch, type, date) ==
  [ branch |-> branch,
    city |-> centerCityMap[branch],
    auditor |-> <<"K","u","m","a","r"," ","K","a","n","n","a","i","y","a","n">>,
    date |-> date,
    type |-> type ]

\* SelectPage handleSubmit up to its await
selectHandleSubmit(s) ==
  /\ s \in clients
  /\ page[s] = "select"
  /\ IF ~Truthy(selBranch[s]) \/ selType[s] = ""
     THEN /\ alert' = [alert EXCEPT ![s] = Alert("select both", <<>>, <<>>)]
          /\ UNCHANGED << appVars, selectVars, reportVars, unitVars, staffVars, tasks >>
     ELSE IF selType[s] = "unit"
     THEN /\ Len(tasks) < cfg.inflight
          /\ tasks' = Append(tasks,
               [ sess |-> s, kind |-> "select", pc |-> "query", mounted |-> TRUE,
                 answer |-> "none",
                 selection |-> selectionOf(selBranch[s], selType[s], todayDD) ])
          /\ UNCHANGED << appVars, selectVars, reportVars, unitVars, staffVars, alert >>
     ELSE /\ handleSelection(s, selectionOf(selBranch[s], selType[s], todayDD), tasks)
          /\ UNCHANGED << authVars, alert >>
  /\ UNCHANGED << storeVars, envVars, boundVars >>

\* SelectPage's query resolves with a match: the alert, no navigation
selectQueryExists(i) ==
  /\ tasks[i].kind = "select" /\ tasks[i].pc = "query"
  /\ unitAuditMatches(tasks[i].selection.branch, tasks[i].selection.date) # {}
  /\ alert' = [alert EXCEPT ![tasks[i].sess] =
                 Alert("exists", tasks[i].selection.branch, tasks[i].selection.date)]
  /\ tasks' = RemoveAt(tasks, i)
  /\ UNCHANGED << storeVars, envVars, appVars, selectVars, reportVars, unitVars, staffVars,
                  boundVars >>

\* onSelect(selection) without the look at snap.empty
selectQueryAnswered(i) ==
  /\ tasks[i].kind = "select" /\ tasks[i].pc = "query"
  /\ handleSelection(tasks[i].sess, tasks[i].selection, RemoveAt(tasks, i))
  /\ UNCHANGED << storeVars, envVars, authVars, alert, boundVars >>

\* SelectPage's query resolves empty: onSelect(selection)
selectQueryEmpty(i) ==
  /\ tasks[i].kind = "select" /\ tasks[i].pc = "query"
  /\ unitAuditMatches(tasks[i].selection.branch, tasks[i].selection.date) = {}
  /\ handleSelection(tasks[i].sess, tasks[i].selection, RemoveAt(tasks, i))
  /\ UNCHANGED << storeVars, envVars, authVars, alert, boundVars >>

\* SelectPage's query rejects: the catch block
selectQueryError(i) ==
  /\ tasks[i].kind = "select" /\ tasks[i].pc = "query"
  /\ alert' = [alert EXCEPT ![tasks[i].sess] = Alert("error", <<>>, <<>>)]
  /\ tasks' = RemoveAt(tasks, i)
  /\ UNCHANGED << storeVars, envVars, appVars, selectVars, reportVars, unitVars, staffVars,
                  boundVars >>

(***************************************************************************)
(* The environment.                                                        *)
(***************************************************************************)
\* local midnight passes
Midnight ==
  /\ today < Len(Days)
  /\ today' = today + 1
  /\ UNCHANGED << storeVars, clients, cfg, appVars, selectVars, reportVars, unitVars, staffVars,
                  runVars, boundVars >>

(***************************************************************************)
(* Initial states: a session is on the selection page, or has already      *)
(* chosen a branch and filled in one of a few forms.                       *)
(***************************************************************************)
\* the checklist answered top to bottom, the first k items "Yes", the rest "No"
answeredPrefix(paramsArray, offset, k) ==
  [ label \in Range(paramsArray) |->
      IF (CHOOSE i \in 1..Len(paramsArray) : paramsArray[i] = label) + offset <= k
      THEN Yes ELSE No ]

PrefixForm(k) ==
  [ FreshForm EXCEPT
      !.kitchen = answeredPrefix(kitchenParams, 0, k),
      !.hygiene = answeredPrefix(hygieneParams, Len(kitchenParams), k),
      !.foodSafety = answeredPrefix(foodSafetyParams,
                                    Len(kitchenParams) + Len(hygieneParams), k) ]

\* all "Yes", nothing to report
CleanForm ==
  [ PrefixForm(Len(allParams)) EXCEPT
      !.observationsPreset = NoIssuesObserved,
      !.maintenancePreset = NoMaintenanceRequired,
      !.actionPreset = actionPlanOptions[8] ]

\* six "Yes", a typed observation, a maintenance preset, a typed action plan
MixedForm ==
  [ PrefixForm(6) EXCEPT
      !.observationsPreset = OtherManual,
      !.observationsManual = <<" ","N","o"," ","I","s","s","u","e","s"," ">>,
      !.maintenancePreset = maintenanceOptions[4],
      !.actionPreset = OtherManual,
      !.actionManual = <<"L","e","a","k">> ]

\* all "No", everything to report
DirtyForm ==
  [ PrefixForm(0) EXCEPT
      !.observationsPreset = observationsOptions[5],
      !.maintenancePreset = maintenanceOptions[3],
      !.actionPreset = actionPlanOptions[2] ]

FilledRatings ==
  [ p \in Range(params) |->
      CASE p = params[1] -> Excellent
        [] p = params[2] -> Excellent
        [] p = params[3] -> Good
        [] p = params[4] -> Average
        [] p = params[5] -> Poor ]

FilledStaffForm(code) ==
  scoreEffect([ FreshStaffForm EXCEPT
                  !.staffName = <<"A","s","h","a">>,
                  !.empCode = code,
                  !.designation = <<"C","o","o","k">> ],
              FilledRatings)

\* a session on the selection page
FreshStart ==
  [ page |-> "select", selection |-> EmptyObj, authed |-> FALSE,
    formData |-> FreshForm, form |-> FreshStaffForm, ratings |-> EmptyObj,
    report |-> FreshReport ]

\* a session that chose branch b for a unit audit on day d and filled in fd
UnitStart(b, d, fd) ==
  [ page |-> "unit", selection |-> selectionOf(b, "unit", selectFormatDate(Days[d])),
    authed |-> FALSE,
    formData |-> fd, form |-> FreshStaffForm, ratings |-> EmptyObj,
    report |-> FreshReport ]

\* a session that chose branch b for staff evaluations on day d and filled in
\* the form for employee code `code`
StaffStart(b, d, code) ==
  [ page |-> "staff", selection |-> selectionOf(b, "staff", selectFormatDate(Days[d])),
    authed |-> FALSE,
    formData |-> FreshForm, form |-> FilledStaffForm(code), ratings |-> FilledRatings,
    report |-> FreshReport ]

\* every option of the three remark selects
AllPresets ==
  Range(observationsOptions) \cup Range(maintenanceOptions) \cup Range(actionPlanOptions)

StartCodes == { <<"E","1">>, <<" ","E","1">> }

\* what users type and choose on top of a filled form in the flows: in the
\* unit form the first checklist item and the action plan, in the staff form
\* the last parameter and the text fields
FlowInputs ==
  [ inflight |-> MaxInFlight,
    items |-> { kitchenParams[1] },
    fields |-> { "action" },
    presets |-> { SelectSentinel, OtherManual },
    texts |-> { <<" ">>, <<"L","e","a","k">> },
    names |-> { <<>> },
    codes |-> { <<>>, <<"E","1">> },
    designations |-> { <<>> },
    params |-> { params[5] },
    ratings |-> { Good },
    remarks |-> { <<"l","a","t","e">> },
    zone |-> 330 ]

\* an item of every section, every option and every text, for the scoring alone
ScoreInputs ==
  [ FlowInputs EXCEPT !.items = { kitchenParams[1], hygieneParams[1],
                                  foodSafetyParams[5] },
                      !.fields = Remarks,
                      !.presets = AllPresets,
                      !.texts = ManualTexts ]

\* the sessions, the inputs explored and the counters of an initial state
InitSessions(cs, start, inputs, edits) ==
  /\ today = 1
  /\ clients = cs
  /\ cfg = inputs
  /\ page = [s \in Sessions |-> start[s].page]
  /\ selection = [s \in Sessions |-> start[s].selection]
  /\ authed = [s \in Sessions |-> start[s].authed]
  /\ signIn = [s \in Sessions |-> IF start[s].authed THEN "none" ELSE "pending"]
  /\ selBranch = [s \in Sessions |-> <<>>]
  /\ selType = [s \in Sessions |-> ""]
  /\ formData = [s \in Sessions |-> start[s].formData]
  /\ liveScores = [s \in Sessions |-> scoresOf(start[s].formData)]
  /\ unitErrors = [s \in Sessions |-> <<>>]
  /\ unitTouched = [s \in Sessions |-> FALSE]
  /\ form = [s \in Sessions |-> start[s].form]
  /\ ratings = [s \in Sessions |-> start[s].ratings]
  /\ staffErrors = [s \in Sessions |-> <<>>]
  /\ staffTouched = [s \in Sessions |-> FALSE]
  /\ saving = [s \in Sessions |-> FALSE]
  /\ autocomplete = [s \in Sessions |-> FreshAutocomplete]
  /\ report = [s \in Sessions |-> start[s].report]
  /\ detail = [s \in Sessions |-> FreshDetail]
  /\ tasks = <<>>
  /\ alert = [s \in Sessions |-> NoAlert]
  /\ budget = edits
  /\ submits = 0

\* an initial state with an empty store
InitWith(cs, start, inputs, edits) ==
  /\ unitAudits = <<>>
  /\ staffEvaluations = <<>>
  /\ InitSessions(cs, start, inputs, edits)

\* the unit-audit flow: session 1 filled in a form for Koramangala on the first
\* day, session 2 (when there is one) the all-"No" form for the same branch and
\* day, the same branch on the next day, or the other branch
Init ==
  \E cs \in {{1}, {1, 2}} :
    \E fd1 \in {CleanForm, MixedForm}, fd2 \in {DirtyForm},
       b2 \in Branches, d2 \in 1..Len(Days) :
      /\ (b2 = Koramangala \/ d2 = 1)
      /\ (2 \notin cs) => (b2 = Koramangala /\ d2 = 1)
      /\ InitWith(cs,
                  [s \in Sessions |->
                     IF s = 1 THEN UnitStart(Koramangala, 1, fd1)
                     ELSE IF s \in cs THEN UnitStart(b2, d2, fd2)
                     ELSE FreshStart],
                  FlowInputs, MaxEdits)

\* what users type and choose in the staff flow: a rating of the first
\* parameter that moves the grade of the filled form from B to C
StaffInputs ==
  [ FlowInputs EXCEPT !.params = { params[1] }, !.ratings = { Poor } ]

\* ratings objects of a form in progress: all five parameters rated, the first
\* one still open, none rated
StartRatings ==
  { FilledRatings,
    [ p \in Range(params) \ { params[1] } |-> FilledRatings[p] ],
    EmptyObj }

\* the staff-evaluation flow: session 1 filled in name, code and designation
\* for employee E1, in either spelling, at Koramangala on the first day and
\* rated all, four or none of the parameters; session 2 (when there is one)
\* filled in the whole form for E1 on either day
InitStaff ==
  \E cs \in {{1}, {1, 2}} :
    \E c1 \in StartCodes, c2 \in { <<"E","1">> }, d2 \in 1..Len(Days),
       r1 \in StartRatings :
      /\ (2 \notin cs) => d2 = 1
      /\ InitWith(cs,
                  [s \in Sessions |->
                     IF s = 1
                     THEN [ StaffStart(Koramangala, 1, c1) EXCEPT
                              !.form = scoreEffect(@, r1), !.ratings = r1 ]
                     ELSE IF s \in cs THEN StaffStart(Koramangala, d2, c2)
                     ELSE FreshStart],
                  StaffInputs, MaxEdits)

\* a session that chose branch b for staff evaluations on day d and has not
\* touched the form
StaffFreshStart(b, d) ==
  [ StaffStart(b, d, <<>>) EXCEPT !.form = FreshStaffForm, !.ratings = EmptyObj ]

\* session 1 in the unit-audit flow, its form untouched or filled, and
\* session 2 in the staff flow, its form untouched
InitMixed ==
  \E fd1 \in {FreshForm, CleanForm} :
    InitWith({1, 2},
             [s \in Sessions |->
                IF s = 1 THEN UnitStart(Koramangala, 1, fd1)
                ELSE StaffFreshStart(Koramangala, 1)],
             FlowInputs, MaxEdits)

\* two sessions with filled forms for one key, in the unit-audit flow or in
\* the staff flow
InitSameKey ==
  \/ InitWith({1, 2},
              [s \in Sessions |->
                 UnitStart(Koramangala, 1, IF s = 1 THEN CleanForm ELSE DirtyForm)],
              FlowInputs, MaxEdits)
  \/ InitWith({1, 2},
              [s \in Sessions |-> StaffStart(Koramangala, 1, <<"E","1">>)],
              FlowInputs, MaxEdits)

\* both flows
InitBoth == InitSameKey \/ InitMixed

\* what one user types who evaluates employee E1 again after a save
SeqInputs ==
  [ FlowInputs EXCEPT !.inflight = 1,
                      !.names = { <<"A","s","h","a">> },
                      !.codes = StartCodes,
                      !.params = Range(params) ]

\* the sequential staff flow: one session, one submission at a time
InitStaffSeq ==
  \E c1 \in StartCodes :
    InitWith({1},
             [s \in Sessions |->
                IF s = 1 THEN StaffStart(Koramangala, 1, c1) ELSE FreshStart],
             SeqInputs, MaxRefill)

\* values a ratings object holds for a parameter: the four options, and one
\* that is none of them
RatingInputs == Range(ratingOptions) \cup { <<"B","a","d">> }

StaffScoreInputs ==
  [ FlowInputs EXCEPT !.params = Range(params), !.ratings = { Excellent, Poor } ]

\* the staff form alone, over every ratings object
InitStaffScore ==
  \E rated \in SUBSET Range(params) :
    \E r \in [rated -> RatingInputs] :
      InitWith({1},
               [s \in Sessions |->
                  IF s = 1
                  THEN [ StaffFreshStart(Koramangala, 1) EXCEPT
                           !.form = scoreEffect(FreshStaffForm, r),
                           !.ratings = r ]
                  ELSE FreshStart],
               StaffScoreInputs, MaxEdits)

\* the unit-audit form alone, its checklist answered
InitScore ==
  \E fd \in {FreshForm} \cup {PrefixForm(k) : k \in 0..Len(allParams)} :
    InitWith({1},
             [s \in Sessions |->
                IF s = 1 THEN UnitStart(Koramangala, 1, fd) ELSE FreshStart],
             ScoreInputs, MaxScoreEdits)

\* the strings the date normalizers are given: d/m/yyyy, dd/mm/yyyy,
\* yyyy-mm-dd, strings that are no date, and the empty string
DateStrings ==
  { <<>>,
    <<"9","/","6","/","2","0","2","4">>,
    <<"0","9","/","0","6","/","2","0","2","4">>,
    <<"1","/","3","/","2","0","2","4">>,
    <<"2","0","2","4","-","0","6","-","0","9">>,
    <<"2","0","2","4","-","0","3","-","0","1">>,
    <<"2","0","2","4","-","0","1","-","0","1">>,
    <<"t","o","m","o","r","r","o","w">>,
    <<"n","/","a">> }

\* a session on the Retrieve Reports page with its inputs filled in
RetrieveStart(rep) == [ FreshStart EXCEPT !.page = "retrieve", !.report = rep ]

\* the date normalizers: session 1 holds the date string x as the date of its
\* selection on the unit-audit form, or as the date of its unit report query;
\* session 2 holds it as the date of its selection on the staff form; the
\* browsers are in a zone ahead of or behind UTC
InitDates ==
  \E x \in DateStrings, z \in Zones, where \in {"unit", "retrieve"} :
    InitWith({1, 2},
             [s \in Sessions |->
                IF s = 2
                THEN [ StaffStart(Koramangala, 1, <<"E","1">>) EXCEPT
                         !.selection = selectionOf(Koramangala, "staff", x) ]
                ELSE IF where = "unit"
                THEN [ UnitStart(Koramangala, 1, CleanForm) EXCEPT
                         !.selection = selectionOf(Koramangala, "unit", x) ]
                ELSE RetrieveStart([ FreshReport EXCEPT !.branch = Koramangala,
                                                        !.dateFromISO = x ])],
             [ FlowInputs EXCEPT !.zone = z ], MaxEdits)

MaxDocs == 2

\* staff evaluations as the store may hold them, written by this form or by
\* earlier ones: the employee code in two spellings, the name in three, a
\* record without a code, one without code and name; the score as a number,
\* as digits in totalMarks, as an empty string, as a string that is no number;
\* ratings with a value that is no level and with a remark; dates on the first
\* and the last day of March 2024, in between, after, and one that is no date
SampleEvaluations ==
  LET sel(date) == [ branch |-> Koramangala, city |-> centerCityMap[Koramangala],
                     auditor |-> <<"K","u","m","a","r">>, date |-> date ]
  IN  << [ staffName |-> <<"A","s","h","a">>, empCode |-> <<"E","1">>,
           scoreOutOf100 |-> 76, totalMarks |-> <<"7","6">>, grade |-> <<"B">>,
           ratings |-> FilledRatings,
           selection |-> sel(<<"0","1","/","0","3","/","2","0","2","4">>),
           createdAt |-> 0 ],
         [ staffName |-> <<"A","S","H","A">>, empCode |-> <<" ","e","1">>,
           scoreOutOf100 |-> 91,
           ratings |-> [ k \in { params[1], remarksKey(params[1]) } |->
                           IF k = params[1] THEN Good ELSE <<"l","a","t","e">> ],
           selection |-> sel(<<"1","5","/","0","3","/","2","0","2","4">>),
           createdAt |-> 0 ],
         [ staffName |-> <<"a","s","h","a">>,
           totalMarks |-> <<"6","4">>,
           ratings |-> [ k \in { params[1], params[2] } |->
                           IF k = params[1] THEN <<"B","a","d">> ELSE Poor ],
           selection |-> sel(<<"3","1","/","0","3","/","2","0","2","4">>),
           createdAt |-> 0 ],
         [ staffName |-> <<"R","a","v","i">>, empCode |-> <<>>,
           totalMarks |-> <<>>,
           selection |-> sel(<<"1","/","4","/","2","0","2","4">>),
           createdAt |-> 0 ],
         [ totalMarks |-> <<"n","/","a">>,
           ratings |-> EmptyObj,
           selection |-> sel(<<"t","o","m","o","r","r","o","w">>),
           createdAt |-> 0 ] >>

\* the collections of at most MaxDocs of these, created one after the other
SampleStores ==
  { [ k \in DOMAIN f |-> [ SampleEvaluations[f[k]] EXCEPT !.createdAt = k ] ] :
      f \in UNION { [1..n -> 1..Len(SampleEvaluations)] : n \in 0..MaxDocs } }

\* the values of the From and To date inputs
FromDates == { <<>>, <<"2","0","2","4","-","0","3","-","0","1">>,
               <<"2","0","2","4","-","0","4","-","0","1">> }

ToDates == { <<>>, <<"2","0","2","4","-","0","3","-","3","1">>,
             <<"2","0","2","4","-","0","4","-","3","0">> }

\* Retrieve Reports: the store holds some staff evaluations of Koramangala and
\* session 1 has chosen the branch, a report type and a date range
InitReports ==
  \E store \in SampleStores, from \in FromDates, to \in ToDates,
     type \in {"staff", "unit"} :
    /\ unitAudits = <<>>
    /\ staffEvaluations = store
    /\ InitSessions({1},
                    [s \in Sessions |->
                       IF s = 1
                       THEN RetrieveStart([ FreshReport EXCEPT
                                              !.branch = Koramangala,
                                              !.reportType = type,
                                              !.dateFromISO = from,
                                              !.dateToISO = to ])
                       ELSE FreshStart],
                    FlowInputs, MaxEdits)

\* the audit a session stored for branch b on day d from the clean form
StoredAudit(b, d) ==
  unitPayload(defaultSelectionOf(selectionOf(b, "unit", selectFormatDate(Days[d]))),
              CleanForm)

\* the evaluation a session stored for employee E1 at branch b on day d
StoredEvaluation(b, d) ==
  LET payload == staffPayload(scoreEffect(FilledStaffForm(<<"E","1">>), FilledRatings),
                              FilledRatings,
                              selectionOf(b, "staff", selectFormatDate(Days[d])))
  IN  [ k \in (DOMAIN payload) \cup {"createdAt"} |->
          IF k = "createdAt" THEN 1 ELSE payload[k] ]

\* the first day as the value of a date input
FirstDayISO == <<"2","0","2","4","-","0","6","-","0","9">>

\* what the user of the whole application types, one handler awaiting the
\* store at a time
AppInputs == [ FlowInputs EXCEPT !.inflight = 1 ]

\* a stored evaluation of the employee with this code and name, of the date
\* and with the total given
EvaluationOf(code, name, date, total) ==
  [ staffName |-> name, empCode |-> code, designation |-> <<"C","o","o","k">>,
    totalMarks |-> total, grade |-> <<"B">>,
    ratings |-> [ p \in { params[1] } |-> Good ],
    selection |-> [ branch |-> Koramangala, city |-> centerCityMap[Koramangala],
                    auditor |-> <<"K","u","m","a","r">>, date |-> date ],
    createdAt |-> 1 ]

Asha == <<"A","s","h","a">>
Ravi == <<"R","a","v","i">>

\* the evaluations of two employees: Asha in June and in May 2024, Ravi in
\* June; Ravi's code is stored as typed, or with a space before it, or not at
\* all
HistoryStores ==
  { << EvaluationOf(<<"E","1">>, Asha, <<"0","9","/","0","6","/","2","0","2","4">>, <<"8","0">>),
       EvaluationOf(<<"E","1">>, Asha, <<"0","2","/","0","5","/","2","0","2","4">>, <<"6","0">>),
       EvaluationOf(code, Ravi, <<"1","0","/","0","6","/","2","0","2","4">>, <<"9","0">>) >> :
      code \in { <<"E","2">>, <<" ","E","2">>, <<>> } }

\* Retrieve Reports with the employee detail: session 1 has chosen
\* Koramangala, the staff report and a range from the first of June 2024
InitHistory ==
  \E store \in HistoryStores,
     range \in { << <<"2","0","2","4","-","0","6","-","0","1">>, <<>> >> } :
    /\ unitAudits = <<>>
    /\ staffEvaluations = store
    /\ InitSessions({1},
                    [s \in Sessions |->
                       IF s = 1
                       THEN RetrieveStart([ FreshReport EXCEPT
                                              !.branch = Koramangala,
                                              !.reportType = "staff",
                                              !.dateFromISO = range[1],
                                              !.dateToISO = range[2] ])
                       ELSE FreshStart],
                    FlowInputs, MaxEdits)

\* the days the browser's clock shows when a preset button is pressed: in
\* June, in January, at the end of March of a leap year, at the end of a year
PresetDays ==
  { Days[1], LocalDate(2024, 1, 15), LocalDate(2024, 3, 31), LocalDate(2023, 12, 31) }

\* the first and the last day of the month of the day d, and of the month
\* before it
MonthOf(d) ==
  [ first |-> LocalDate(d.year, d.month, 1),
    last |-> LocalDate(d.year, d.month, DaysInMonth(d.year, d.month)) ]

MonthBefore(d) == MonthOf(PrevDay(LocalDate(d.year, d.month, 1)))

\* the day after d
NextDay(d) == RollDays(d.year, d.month, d.day + 1)

\* the store holds evaluations of the first and the last day of June 2024 and
\* of the days next to them
PresetStore ==
  << EvaluationOf(<<"E","1">>, Asha, FormatLocal(LocalDate(2024, 5, 31)), <<"6","0">>),
     EvaluationOf(<<"E","1">>, Asha, FormatLocal(LocalDate(2024, 6, 1)), <<"7","0">>),
     EvaluationOf(<<"E","1">>, Asha, FormatLocal(LocalDate(2024, 6, 30)), <<"8","0">>),
     EvaluationOf(<<"E","1">>, Asha, FormatLocal(LocalDate(2024, 7, 1)), <<"9","0">>) >>

\* Retrieve Reports with the presets: session 1 has chosen Koramangala and
\* the staff report, no range yet, in a zone ahead of or behind UTC
InitPresets ==
  \E z \in Zones :
    /\ unitAudits = <<>>
    /\ staffEvaluations = PresetStore
    /\ InitSessions({1},
                    [s \in Sessions |->
                       IF s = 1
                       THEN RetrieveStart([ FreshReport EXCEPT
                                              !.branch = Koramangala,
                                              !.reportType = "staff" ])
                       ELSE FreshStart],
                    [ AppInputs EXCEPT !.zone = z ], MaxEdits)

\* the store holds an evaluation of Asha, E1, a cook, of the first day, and
\* one of Ravi, E2, a chef, of a day in May
LookupStore ==
  << EvaluationOf(<<"E","1">>, Asha, selectFormatDate(Days[1]), <<"8","0">>),
     [ EvaluationOf(<<"E","2">>, Ravi, FormatLocal(LocalDate(2024, 5, 2)), <<"9","0">>)
         EXCEPT !.designation = <<"C","h","e","f">> ] >>

\* what the user types into the staff details: the first letter of Ravi's
\* name, either employee's code
LookupInputs ==
  [ FlowInputs EXCEPT !.names = { <<"R">> },
                      !.codes = { <<"E","1">>, <<"E","2">> } ]

\* the staff form with the lookups: session 1 has rated every parameter and
\* typed the code E1, or no code yet
InitLookup ==
  \E code \in { <<>>, <<"E","1">> } :
    /\ unitAudits = <<>>
    /\ staffEvaluations = LookupStore
    /\ InitSessions({1},
                    [s \in Sessions |->
                       IF s = 1
                       THEN [ StaffStart(Koramangala, 1, code) EXCEPT
                                !.form = scoreEffect([ FreshStaffForm EXCEPT !.empCode = code ],
                                                     FilledRatings) ]
                       ELSE FreshStart],
                    LookupInputs, MaxEdits)

\* a remark of the unit form as a user can have left it: not chosen, an
\* option chosen, or Other (manual) with a text typed
RemarkStates(which) ==
  { [preset |-> SelectSentinel, manual |-> <<>>],
    [preset |-> remarkOptions(which)[2], manual |-> <<>>],
    [preset |-> OtherManual, manual |-> <<"L","e","a","k">>] }

\* the options and texts explored in the three remarks
RemarkInputs ==
  [ FlowInputs EXCEPT !.inflight = 1,
                      !.fields = Remarks,
                      !.presets = { SelectSentinel, OtherManual, NoIssuesObserved,
                                    NoMaintenanceRequired, observationsOptions[3],
                                    maintenanceOptions[3], actionPlanOptions[2] },
                      !.texts = { <<" ">>, <<"L","e","a","k">>,
                                  <<" ","N","o"," ","I","s","s","u","e","s"," ">> } ]

\* the unit-audit form with every checklist item answered and each remark in
\* one of its states
InitRemarks ==
  \E obs \in RemarkStates("observations"), maint \in RemarkStates("maintenance"),
     act \in RemarkStates("action") :
    InitWith({1},
             [s \in Sessions |->
                IF s = 1
                THEN UnitStart(Koramangala, 1,
                       [ PrefixForm(Len(allParams)) EXCEPT
                           !.observationsPreset = obs.preset,
                           !.observationsManual = obs.manual,
                           !.maintenancePreset = maint.preset,
                           !.maintenanceManual = maint.manual,
                           !.actionPreset = act.preset,
                           !.actionManual = act.manual ])
                ELSE FreshStart],
             RemarkInputs, MaxEdits)

\* where the session of the whole application starts: on the selection
\* page, on one of the two forms, filled in, or on the Retrieve Reports page
\* with its inputs filled in
AppStart(where, type) ==
  IF where = "select" THEN FreshStart
  ELSE IF where = "unit" THEN UnitStart(Kochi, 1, CleanForm)
  ELSE IF where = "staff" THEN StaffStart(Koramangala, 1, <<"E","1">>)
  ELSE RetrieveStart([ FreshReport EXCEPT !.branch = Koramangala,
                                          !.reportType = type,
                                          !.dateFromISO = FirstDayISO ])

\* the store of the whole application: empty, or holding an audit and an
\* evaluation of the first day
AppStore(stored) ==
  /\ unitAudits = IF stored THEN << StoredAudit(Koramangala, 1) >> ELSE <<>>
  /\ staffEvaluations =
       IF stored THEN << StoredEvaluation(Koramangala, 1) >> ELSE <<>>

\* the whole application in one session, no user signed in at the mount
InitApp ==
  \E stored \in BOOLEAN, where \in {"select", "unit", "staff", "retrieve"},
     type \in {"unit", "staff"} :
    /\ AppStore(stored)
    /\ (where # "retrieve") => type = "unit"
    /\ InitSessions({1},
                    [s \in Sessions |->
                       IF s = 1 THEN AppStart(where, type) ELSE FreshStart],
                    AppInputs, MaxEdits)

\* the whole application in one session; a user is signed in at the mount
\* (auth.currentUser), or none is and the anonymous sign-in is requested
InitAuth ==
  \E where \in {"select", "unit", "staff", "retrieve"}, user \in BOOLEAN :
    /\ AppStore(where = "retrieve")
    /\ InitSessions({1},
                    [s \in Sessions |->
                       IF s = 1
                       THEN [ AppStart(where, "staff") EXCEPT !.authed = user ]
                       ELSE FreshStart],
                    AppInputs, MaxEdits)

(***************************************************************************)
(* The next-state relations.                                               *)
(***************************************************************************)
\* an input event, counted against the exploration's budget
Spend == budget > 0 /\ budget' = budget - 1

UnitEdit(s) ==
  \/ handleCheck(s)
  \/ handleRemarkPreset(s)
  \/ handleRemarkManual(s)

StaffEdit(s) ==
  \/ handleRating(s)
  \/ handleRemark(s)
  \/ handleStaffNameChange(s)
  \/ empCodeChange(s)
  \/ designationChange(s)

Navigation(s) ==
  \/ setBranch(s)
  \/ setType(s)
  \/ selectHandleSubmit(s)
  \/ onOpenRetrieve(s)
  \/ goBack(s)

SelectStoreStep(i) ==
  \/ selectQueryExists(i)
  \/ selectQueryEmpty(i)
  \/ selectQueryError(i)

UnitStoreStep(i) ==
  \/ unitQueryConflict(i)
  \/ unitQueryEmpty(i)
  \/ unitStoreError(i)
  \/ unitWriteDone(i)

StaffStoreStep(i) ==
  \/ staffQueryDuplicate(i)
  \/ staffQueryEmpty(i)
  \/ staffQueryError(i)
  \/ staffWriteDone(i)
  \/ staffWriteError(i)

ReportStoreStep(i) ==
  \/ runQueryDone(i)
  \/ runQueryError(i)

LookupStoreStep(i) ==
  \/ searchDone(i)
  \/ searchError(i)
  \/ latestStaffFound(i)
  \/ latestStaffNone(i)

HistoryStoreStep(i) ==
  \/ historyByCode(i)
  \/ historyByCodeEmpty(i)
  \/ historyByName(i)
  \/ historyError(i)

\* the unit-audit flow: AuditForm and the store
Next ==
  \/ \E s \in Sessions : Spend /\ UnitEdit(s)
  \/ \E s \in Sessions : unitHandleSubmit(s)
  \/ \E i \in 1..Len(tasks) : UnitStoreStep(i)

Spec == Init /\ [][Next]_vars

\* the staff-evaluation flow: StaffEvaluation and the store
NextStaff ==
  \/ \E s \in Sessions : Spend /\ StaffEdit(s)
  \/ \E s \in Sessions : runScoreEffect(s)
  \/ \E s \in Sessions : staffHandleSubmit(s)
  \/ \E i \in 1..Len(tasks) : StaffStoreStep(i)

SpecStaff == InitStaff /\ [][NextStaff]_vars

\* one session on the staff form, the store empty
InitStaffForm ==
  \E c1 \in StartCodes, r1 \in StartRatings :
    InitWith({1},
             [s \in Sessions |->
                IF s = 1
                THEN [ StaffStart(Koramangala, 1, c1) EXCEPT
                         !.form = scoreEffect(@, r1), !.ratings = r1 ]
                ELSE FreshStart],
             StaffInputs, MaxEdits)

SpecStaffForm == InitStaffForm /\ [][NextStaff]_vars

\* the unit-audit form alone
NextScore == Spend /\ UnitEdit(1)

SpecScore == InitScore /\ [][NextScore]_vars

\* both flows and the store
NextBoth == Next \/ NextStaff

SpecBoth == InitBoth /\ [][NextBoth]_vars

\* the sequential staff flow, the store answering every request
NextStaffSeq ==
  \/ Spend /\ handleStaffNameChange(1)
  \/ Spend /\ empCodeChange(1)
  \/ Spend /\ handleRating(1)
  \/ runScoreEffect(1)
  \/ staffHandleSubmit(1)
  \/ \E i \in 1..Len(tasks) : staffQueryDuplicate(i)
  \/ \E i \in 1..Len(tasks) : staffQueryEmpty(i)
  \/ \E i \in 1..Len(tasks) : staffWriteDone(i)

SpecStaffSeq == InitStaffSeq /\ [][NextStaffSeq]_vars

\* the staff form alone
NextStaffScore ==
  \/ Spend /\ handleRating(1)
  \/ Spend /\ handleRemark(1)
  \/ runScoreEffect(1)

SpecStaffScore == InitStaffScore /\ [][NextStaffScore]_vars


\* the date normalizers at work: the two submissions and the unit report query
NextDates ==
  \/ unitHandleSubmit(1)
  \/ staffHandleSubmit(2)
  \/ runQuery(1)
  \/ \E i \in 1..Len(tasks) : UnitStoreStep(i)
  \/ \E i \in 1..Len(tasks) : StaffStoreStep(i)
  \/ \E i \in 1..Len(tasks) : ReportStoreStep(i)

SpecDates == InitDates /\ [][NextDates]_vars
\* Retrieve Reports: the query and the summary document
NextReports ==
  \/ runQuery(1)
  \/ downloadSummaryPDF(1)
  \/ \E i \in 1..Len(tasks) : ReportStoreStep(i)

SpecReports == InitReports /\ [][NextReports]_vars

\* Retrieve Reports: the query, the results table and the employee detail
NextHistory ==
  \/ runQuery(1)
  \/ openEmployee(1)
  \/ downloadRowPDF(1)
  \/ downloadPersonPDF(1)
  \/ handleBackFromEmployee(1)
  \/ \E i \in 1..Len(tasks) : ReportStoreStep(i)
  \/ \E i \in 1..Len(tasks) : HistoryStoreStep(i)

SpecHistory == InitHistory /\ [][NextHistory]_vars

\* the unit-audit form: the remarks edited, the submission, the store
NextRemarks ==
  \/ Spend /\ UnitEdit(1)
  \/ unitHandleSubmit(1)
  \/ \E i \in 1..Len(tasks) : UnitStoreStep(i)

SpecRemarks == InitRemarks /\ [][NextRemarks]_vars

\* the staff form: the staff details typed or looked up, and the submission
NextLookup ==
  \/ Spend /\ handleStaffNameChange(1)
  \/ Spend /\ empCodeChange(1)
  \/ Spend /\ designationChange(1)
  \/ searchStaffNames(1)
  \/ pickSuggestion(1)
  \/ resetSelection(1)
  \/ empCodeBlur(1)
  \/ staffHandleSubmit(1)
  \/ \E i \in 1..Len(tasks) : LookupStoreStep(i)
  \/ \E i \in 1..Len(tasks) : StaffStoreStep(i)

SpecLookup == InitLookup /\ [][NextLookup]_vars

\* Retrieve Reports: the presets of the range and the query
NextPresets ==
  \/ \E now \in PresetDays : presetThisMonth(1, now)
  \/ \E now \in PresetDays : presetLastMonth(1, now)
  \/ presetClear(1)
  \/ runQuery(1)
  \/ \E i \in 1..Len(tasks) : ReportStoreStep(i)

SpecPresets == InitPresets /\ [][NextPresets]_vars

\* the whole application: the four pages and the store
NextApp ==
  \/ \E s \in Sessions : Navigation(s)
  \/ \E s \in Sessions : Spend /\ UnitEdit(s)
  \/ \E s \in Sessions : Spend /\ StaffEdit(s)
  \/ \E s \in Sessions : runScoreEffect(s)
  \/ \E s \in Sessions : unitHandleSubmit(s)
  \/ \E s \in Sessions : staffHandleSubmit(s)
  \/ \E s \in Sessions : runQuery(s)
  \/ \E s \in Sessions : downloadSummaryPDF(s)
  \/ \E i \in 1..Len(tasks) : SelectStoreStep(i)
  \/ \E i \in 1..Len(tasks) : UnitStoreStep(i)
  \/ \E i \in 1..Len(tasks) : StaffStoreStep(i)
  \/ \E i \in 1..Len(tasks) : ReportStoreStep(i)

SpecApp == InitApp /\ [][NextApp]_vars

\* the operations of the pages and the store, without the typing; on the
\* selection page the user chooses Koramangala and the unit audit
CoreStep ==
  \/ \E s \in Sessions : setBranch(s) /\ selBranch'[s] = Koramangala
  \/ \E s \in Sessions : setType(s) /\ selType'[s] = "unit"
  \/ \E s \in Sessions : selectHandleSubmit(s)
  \/ \E s \in Sessions : onOpenRetrieve(s)
  \/ \E s \in Sessions : goBack(s)
  \/ \E s \in Sessions : unitHandleSubmit(s)
  \/ \E s \in Sessions : staffHandleSubmit(s)
  \/ \E s \in Sessions : runQuery(s)
  \/ \E i \in 1..Len(tasks) : SelectStoreStep(i)
  \/ \E i \in 1..Len(tasks) : UnitStoreStep(i)
  \/ \E i \in 1..Len(tasks) : StaffStoreStep(i)
  \/ \E i \in 1..Len(tasks) : ReportStoreStep(i)

\* the anonymous sign-in ends
AuthStep == \E s \in Sessions : signInDone(s) \/ signInFailed(s)

\* the application while the anonymous sign-in is under way
NextAuth == CoreStep \/ AuthStep

SpecAuth == InitAuth /\ [][NextAuth]_vars


(***************************************************************************)
(* Properties.                                                             *)
(***************************************************************************)
\* C1: while the store holds a unit audit for a branch and date, the
\* uniqueness query of a submission for that branch and date never leads to a
\* write: when the handler ends, the store is as it was and the session saw the
\* conflict alert for that branch and date (or the store's error).
ConflictRejected ==
  [][ \A i \in 1..Len(tasks) :
        ( /\ tasks[i].kind = "unit"
          /\ tasks[i].pc = "query"
          /\ \E k \in 1..Len(unitAudits) :
               /\ unitAudits[k].branch = tasks[i].payload.branch
               /\ unitAudits[k].date = tasks[i].payload.date )
        => /\ ~(Len(tasks') = Len(tasks) /\ tasks'[i].pc = "write")
           /\ (tasks' = RemoveAt(tasks, i))
                => /\ unitAudits' = unitAudits
                   /\ \/ alert'[tasks[i].sess] =
                           Alert("conflict", tasks[i].payload.branch,
                                 tasks[i].payload.date)
                      \/ alert'[tasks[i].sess].kind = "error" ]_vars

\* a second submission for Koramangala on the first day was answered with the
\* conflict alert, and the store still holds the one audit
ConflictRejectedWitness ==
  /\ submits = 2
  /\ tasks = <<>>
  /\ Len(unitAudits) = 1
  /\ unitAudits[1].branch = Koramangala
  /\ \E s \in clients :
       alert[s] = Alert("conflict", Koramangala, unitAudits[1].date)

\* C2: with a single client session, the store holds at most one unit audit
\* per (branch, date).
OneAuditPerBranchDay ==
  (clients = {1}) =>
    \A i, j \in 1..Len(unitAudits) :
      ( /\ unitAudits[i].branch = unitAudits[j].branch
        /\ unitAudits[i].date = unitAudits[j].date ) => i = j

\* C3: submissions made one after the other from one session leave at most one
\* staff evaluation per (empCode, selection.date) as stored.
OneEvaluationPerEmployeeDay ==
  \A i, j \in 1..Len(staffEvaluations) :
    ( /\ staffEvaluations[i].empCode = staffEvaluations[j].empCode
      /\ staffEvaluations[i].selection.date = staffEvaluations[j].selection.date )
    => i = j

\* C4: a write is on its way only for a submission whose uniqueness query the
\* store answered, and answered with no match.
WriteOnlyAfterEmptyQuery ==
  \A i \in 1..Len(tasks) :
    tasks[i].pc = "write" => tasks[i].answer = "empty"

\* C5: when two sessions were both told that their submission for one key was
\* saved, the store holds two records for that key: it keeps no key unique.
NoUniqueConstraint ==
  ( /\ alert[1].kind = "submitted"
    /\ alert[2].kind = "submitted"
    /\ alert[1].key = alert[2].key
    /\ alert[1].date = alert[2].date )
  => Cardinality({ k \in 1..Len(unitAudits) :
                     /\ unitAudits[k].branch = alert[1].key
                     /\ unitAudits[k].date = alert[1].date })
     + Cardinality({ k \in 1..Len(staffEvaluations) :
                       /\ staffEvaluations[k].empCode = alert[1].key
                       /\ staffEvaluations[k].selection.date = alert[1].date })
     >= 2

\* two sessions submitted once each for one branch and date; neither was
\* refused, so both queries were answered before either write, and the store
\* ends with two audits for the key
NoUniqueConstraintWitness ==
  /\ submits = 2
  /\ tasks = <<>>
  /\ alert[1].kind = "submitted"
  /\ alert[2] = alert[1]
  /\ Len(unitAudits) = 2
  /\ unitAudits[1].branch = unitAudits[2].branch
  /\ unitAudits[1].date = unitAudits[2].date

\* C6: a uniqueness query is sent only for a form that is complete (every
\* required field, every checklist item answered or parameter rated, text
\* under "Other (manual)"); a submit event itself leaves the store as it is,
\* and the store changes only when a write that was sent resolves.
ValidationGate ==
  [][ /\ (Len(tasks') = Len(tasks) + 1) =>
           LET t == tasks'[Len(tasks')]
               fd == formData[t.sess]
               f == form[t.sess]
               blank(text) == \A k \in 1..Len(text) : text[k] = " "
           IN  /\ t.kind = "unit" =>
                    /\ \A field \in {"branch", "city", "date"} :
                         /\ field \in DOMAIN selection[t.sess]
                         /\ selection[t.sess][field] # <<>>
                    /\ \A section \in Sections :
                         \A label \in Range(sectionParams(section)) :
                           /\ label \in DOMAIN fd[section]
                           /\ fd[section][label] \in {Yes, No}
                    /\ \A which \in Remarks :
                         ~( /\ fd[PresetField(which)] \in {SelectSentinel, OtherManual}
                            /\ blank(fd[ManualField(which)]) )
               /\ t.kind = "staff" =>
                    /\ ~blank(f.staffName)
                    /\ ~blank(f.empCode)
                    /\ \A param \in Range(params) :
                         /\ param \in DOMAIN ratings[t.sess]
                         /\ ratings[t.sess][param] \in Range(ratingOptions)
      /\ (submits' # submits) =>
           (unitAudits' = unitAudits /\ staffEvaluations' = staffEvaluations)
      /\ (unitAudits' # unitAudits \/ staffEvaluations' # staffEvaluations) =>
           \E i \in 1..Len(tasks) :
             tasks[i].pc = "write" /\ tasks' = RemoveAt(tasks, i) ]_vars

\* session 1 submitted a unit form whose action plan is "Other (manual)"
\* without text, session 2 a staff form with nothing rated; both were refused,
\* nothing was sent and the store is empty
ValidationGateWitness ==
  /\ submits = 2
  /\ tasks = <<>>
  /\ unitAudits = <<>> /\ staffEvaluations = <<>>
  /\ page[1] = "unit" /\ unitTouched[1] /\ unitErrors[1] # <<>>
  /\ formData[1].actionPreset = OtherManual
  /\ formData[1].actionManual = <<>>
  /\ \A label \in Range(kitchenParams) : Lookup(formData[1].kitchen, label) = Yes
  /\ page[2] = "staff" /\ staffTouched[2] /\ staffErrors[2] # <<>>
  /\ ratings[2] = EmptyObj

\* C7: the score computeScores returns lies in 0..100; with every item "No" and
\* both remarks penalised the total before the clamp is -22 and the score 0.
ScoreInRange ==
  \A s \in Sessions :
    /\ liveScores[s].scoreOutOf100 \in 0..100
    /\ ( /\ \A section \in Sections :
              \A label \in Range(sectionParams(section)) :
                Lookup(formData[s][section], label) = No
         /\ liveScores[s].obsScore = -11
         /\ liveScores[s].maintScore = -11 )
       => (liveScores[s].rawScore = -22 /\ liveScores[s].scoreOutOf100 = 0)

\* every item "No", an observation and a maintenance issue chosen
ScoreInRangeWitness ==
  /\ \A section \in Sections :
       \A label \in Range(sectionParams(section)) :
         Lookup(formData[1][section], label) = No
  /\ formData[1].observationsPreset = observationsOptions[5]
  /\ formData[1].maintenancePreset = maintenanceOptions[3]
  /\ liveScores[1].rawScore = -22
  /\ liveScores[1].scoreOutOf100 = 0

\* C8: every unit audit in the store has checklist = 6 x (items answered
\* "Yes"), totalBeforeClamp = checklist + observations + maintenance,
\* maxChecklist = 78 and scoreOutOf100 = min(100, max(0, totalBeforeClamp));
\* thirteen "Yes" with "No issues observed" and "No maintenance required"
\* score 100.
WrittenScores ==
  \A k \in 1..Len(unitAudits) :
    LET rec == unitAudits[k]
        b == rec.scoreBreakdown
        yes == Cardinality({ <<section, label>> \in
                               UNION { {section} \X Range(sectionParams(section)) :
                                       section \in Sections } :
                               Lookup(rec[section], label) = Yes })
    IN  /\ b.checklist = 6 * yes
        /\ b.totalBeforeClamp = b.checklist + b.observations + b.maintenance
        /\ b.maxChecklist = 78
        /\ rec.scoreOutOf100 =
             (IF b.totalBeforeClamp > 100 THEN 100
              ELSE IF b.totalBeforeClamp < 0 THEN 0
              ELSE b.totalBeforeClamp)
        /\ ( /\ yes = 13
             /\ rec.observations = NoIssuesObserved
             /\ rec.maintenance = NoMaintenanceRequired )
           => rec.scoreOutOf100 = 100

\* the store holds a perfect audit and one whose total was negative
WrittenScoresWitness ==
  \E k, l \in 1..Len(unitAudits) :
    /\ unitAudits[k].scoreBreakdown.checklist = 78
    /\ unitAudits[k].observations = NoIssuesObserved
    /\ unitAudits[k].maintenance = NoMaintenanceRequired
    /\ unitAudits[k].scoreOutOf100 = 100
    /\ unitAudits[l].scoreBreakdown.totalBeforeClamp = -22
    /\ unitAudits[l].scoreOutOf100 = 0

\* C9: the observation and the maintenance score of a form are +11 for the
\* field's own "nothing to report" option and for "Other (manual)" whose text
\* contains "no issue" in any case, 0 for "-- Select --" or no value, and -11
\* for everything else.
RemarkScores ==
  \A s \in Sessions :
    LET pattern == <<"n","o"," ","i","s","s","u","e">>
        saysNoIssue(text) ==
          \E at \in 0..(Len(text) - Len(pattern)) :
            \A k \in 1..Len(pattern) : LowerChar(text[at + k]) = pattern[k]
        expected(preset, manual, nothing) ==
          IF preset = nothing \/ (preset = OtherManual /\ saysNoIssue(manual)) THEN 11
          ELSE IF preset = SelectSentinel \/ preset = <<>> THEN 0
          ELSE -11
    IN  /\ liveScores[s].obsScore =
             expected(formData[s].observationsPreset, formData[s].observationsManual,
                      NoIssuesObserved)
        /\ liveScores[s].maintScore =
             expected(formData[s].maintenancePreset, formData[s].maintenanceManual,
                      NoMaintenanceRequired)

\* " No Issues " typed under "Other (manual)" as the maintenance remark
RemarkScoresWitness ==
  /\ formData[1].maintenancePreset = OtherManual
  /\ formData[1].maintenanceManual = <<" ","N","o"," ","I","s","s","u","e","s"," ">>
  /\ liveScores[1].maintScore = 11
  /\ liveScores[1].obsScore = 0

\* C10: computeStaffScore is the integer nearest to the mean of Excellent 100,
\* Good 80, Average 60, Poor 40 over those of the five parameters that carry
\* one of these ratings, and null when none does; remark keys and other values
\* do not count; Excellent, Excellent, Good, Average, Poor give 76.
StaffScoreIsMean ==
  \A s \in Sessions :
    LET r == ratings[s]
        worth(p) == CASE Lookup(r, p) = Excellent -> 100
                      [] Lookup(r, p) = Good -> 80
                      [] Lookup(r, p) = Average -> 60
                      [] Lookup(r, p) = Poor -> 40
                      [] OTHER -> 0
        rated == { i \in 1..5 : worth(params[i]) # 0 }
        n == Cardinality(rated)
        sum == worth(params[1]) + worth(params[2]) + worth(params[3])
               + worth(params[4]) + worth(params[5])
        score == computeStaffScore(r)
    IN  /\ IF n = 0 THEN score = NullScore
           ELSE /\ 2 * (n * score - sum) <= n
                /\ 2 * (sum - n * score) <= n
        /\ ( /\ Lookup(r, params[1]) = Excellent /\ Lookup(r, params[2]) = Excellent
             /\ Lookup(r, params[3]) = Good /\ Lookup(r, params[4]) = Average
             /\ Lookup(r, params[5]) = Poor ) => score = 76

\* Excellent, Good, Good (mean 86.67), a value that is no rating, and a remark
StaffScoreIsMeanWitness ==
  /\ Lookup(ratings[1], params[1]) = Excellent
  /\ Lookup(ratings[1], params[2]) = Good
  /\ Lookup(ratings[1], params[3]) = Good
  /\ Lookup(ratings[1], params[4]) = <<"B","a","d">>
  /\ params[5] \notin DOMAIN ratings[1]
  /\ remarksKey(params[5]) \in DOMAIN ratings[1]
  /\ computeStaffScore(ratings[1]) = 87
  /\ form[1].totalMarks = <<"8","7">>


\* C11: every staff evaluation in the store carries the score of its own
\* ratings as scoreOutOf100, that score's decimal string as totalMarks, and the
\* grade the thresholds 90, 75, 60 give that score, whatever rating changes
\* preceded the submission.
StoredScoreAndGradeOfOwnRatings ==
  \A k \in 1..Len(staffEvaluations) :
    LET e == staffEvaluations[k]
        worth(p) == CASE Lookup(e.ratings, p) = Excellent -> 100
                      [] Lookup(e.ratings, p) = Good -> 80
                      [] Lookup(e.ratings, p) = Average -> 60
                      [] Lookup(e.ratings, p) = Poor -> 40
                      [] OTHER -> 0
        n == Cardinality({ i \in 1..5 : worth(params[i]) # 0 })
        sum == worth(params[1]) + worth(params[2]) + worth(params[3])
               + worth(params[4]) + worth(params[5])
        score == e.scoreOutOf100
    IN  /\ n > 0
        /\ 2 * (n * score - sum) <= n
        /\ 2 * (sum - n * score) <= n
        /\ e.totalMarks = NumToString(score)
        /\ e.grade = IF score >= 90 THEN <<"A">>
                     ELSE IF score >= 75 THEN <<"B">>
                     ELSE IF score >= 60 THEN <<"C">>
                     ELSE <<"D">>

\* C12: a staff submission reaches the store only with all five parameters
\* rated: every handler awaiting the store and every stored evaluation has a
\* rating option for each parameter and a score that is no fallback, so a
\* submission with an unrated parameter sends nothing.
UnratedRejected ==
  /\ \A i \in 1..Len(tasks) :
       tasks[i].kind = "staff" =>
         /\ \A p \in Range(params) :
              Lookup(tasks[i].payload.ratings, p) \in Range(ratingOptions)
         /\ tasks[i].payload.scoreOutOf100 >= 40
  /\ \A k \in 1..Len(staffEvaluations) :
       /\ \A p \in Range(params) :
            Lookup(staffEvaluations[k].ratings, p) \in Range(ratingOptions)
       /\ staffEvaluations[k].scoreOutOf100 >= 40

\* a submission with name and code filled in and a parameter unrated was
\* rejected: the error is shown and no handler of the session awaits the store
UnratedRejectedWitness ==
  /\ staffTouched[1]
  /\ trim(form[1].staffName) # <<>>
  /\ trim(form[1].empCode) # <<>>
  /\ \E p \in Range(params) : p \notin DOMAIN ratings[1]
  /\ \E j \in 1..Len(staffErrors[1]) : staffErrors[1][j].msg = "Please rate"
  /\ \A i \in 1..Len(tasks) : tasks[i].sess # 1
  /\ staffEvaluations = <<>>
  /\ submits > 0

DatesHeld ==
  { Lookup(selection[s], "date") : s \in Sessions }
  \cup { report[s].dateFromISO : s \in Sessions }
  \cup { tasks[i].payload.date : i \in { j \in 1..Len(tasks) : tasks[j].kind = "unit" } }
  \cup { tasks[i].dateDD : i \in { j \in 1..Len(tasks) : tasks[j].kind \in {"staff", "report"} } }

\* C14: each of ensureDDMMYYYY, formatDateDDMMYYYY and isoToDDMMYYYY gives,
\* applied to its own result, that result again, for d/m/yyyy, dd/mm/yyyy and
\* yyyy-mm-dd strings, strings that are no date, and the empty string.
NormalizersIdempotent ==
  \A x \in DatesHeld :
    /\ ensureDDMMYYYY(ensureDDMMYYYY(x)) = ensureDDMMYYYY(x)
    /\ formatDateDDMMYYYY(formatDateDDMMYYYY(x)) = formatDateDDMMYYYY(x)
    /\ isoToDDMMYYYY(isoToDDMMYYYY(x)) = isoToDDMMYYYY(x)

\* behind UTC, the staff submission turned 2024-03-01 into 29/02/2024, a fixed
\* point of the three normalizers
NormalizersIdempotentWitness ==
  \E i \in 1..Len(tasks) :
    /\ tasks[i].kind = "staff"
    /\ Lookup(selection[2], "date") = <<"2","0","2","4","-","0","3","-","0","1">>
    /\ tasks[i].dateDD = <<"2","9","/","0","2","/","2","0","2","4">>
    /\ ensureDDMMYYYY(tasks[i].dateDD) = tasks[i].dateDD
    /\ formatDateDDMMYYYY(tasks[i].dateDD) = tasks[i].dateDD
    /\ isoToDDMMYYYY(tasks[i].dateDD) = tasks[i].dateDD

GroupedByKey ==
  \A s \in Sessions :
    LET res == report[s].results
        rows == employeesAggregated(res)
        text(r, f) == IF f \in DOMAIN r THEN trim(r[f]) ELSE <<>>
        key(r) == toLowerCase(IF text(r, "empCode") # <<>> THEN text(r, "empCode")
                              ELSE text(r, "staffName"))
        named == { i \in 1..Len(res) : key(res[i]) # <<>> }
    IN  /\ SumSeq([k \in 1..Len(rows) |-> rows[k].count]) = Len(res)
        /\ \A i \in named :
             \E k \in 1..Len(rows) :
               /\ key(rows[k]) = key(res[i])
               /\ rows[k].count = Cardinality({ j \in named : key(res[j]) = key(res[i]) })
               /\ \A l \in 1..Len(rows) : key(rows[l]) = key(res[i]) => l = k
        /\ \A k \in 1..Len(rows) : key(rows[k]) = <<>> => rows[k].count = 1

\* the summary document has one row, of count 2, for the records of "E1",
\* "Asha" and " e1", "ASHA"
GroupedByKeyWitness ==
  /\ report[1].summary.saved
  /\ Len(report[1].results) = 2
  /\ \E i, j \in 1..2 :
       /\ Lookup(report[1].results[i], "empCode") = <<"E","1">>
       /\ Lookup(report[1].results[i], "staffName") = <<"A","s","h","a">>
       /\ Lookup(report[1].results[j], "empCode") = <<" ","e","1">>
       /\ Lookup(report[1].results[j], "staffName") = <<"A","S","H","A">>
  /\ Len(report[1].summary.employees) = 1
  /\ report[1].summary.employees[1].count = 2

\* C17: the average of an employee row is the mean of the numeric scores of
\* the row's records; a record whose score is missing, empty or no number adds
\* nothing to it; the label is Excellent from 90, Good from 75, Average from
\* 60, else Poor; a row without any numeric score has no average and the
\* label "-".
MeanOfNumericScores ==
  \A s \in Sessions :
    LET res == report[s].results
        rows == employeesAggregated(res)
        text(r, f) == IF f \in DOMAIN r THEN trim(r[f]) ELSE <<>>
        key(r) == toLowerCase(IF text(r, "empCode") # <<>> THEN text(r, "empCode")
                              ELSE text(r, "staffName"))
        digits(r) == IF "totalMarks" \in DOMAIN r THEN r.totalMarks
                     ELSE IF "total" \in DOMAIN r THEN r.total ELSE <<>>
        numeric(r) == \/ "scoreOutOf100" \in DOMAIN r
                      \/ digits(r) # <<>> /\ \A c \in 1..Len(digits(r)) : IsDigit(digits(r)[c])
        score(r) == IF "scoreOutOf100" \in DOMAIN r THEN r.scoreOutOf100
                    ELSE ParseNat(digits(r))
    IN  \A k \in 1..Len(rows) :
          key(rows[k]) # <<>> =>
            LET group == { i \in 1..Len(res) : key(res[i]) = key(rows[k]) /\ numeric(res[i]) }
                n == Cardinality(group)
                sum == SumSeq([j \in 1..Len(res) |->
                                 IF j \in group THEN score(res[j]) ELSE 0])
            IN  IF n = 0
                THEN rows[k].avg.n = 0 /\ rows[k].label = <<"-">>
                ELSE /\ rows[k].avg.n # 0
                     /\ rows[k].avg.sum * n = sum * rows[k].avg.n
                     /\ rows[k].label = IF sum >= 90 * n THEN Excellent
                                        ELSE IF sum >= 75 * n THEN Good
                                        ELSE IF sum >= 60 * n THEN Average
                                        ELSE Poor

\* C18: a staff report holds exactly the stored evaluations whose dd/mm/yyyy
\* date d has from <= d <= to, both days included and an empty bound setting
\* no limit; 15/03/2024 is within 2024-03-01 .. 2024-03-31 and not within
\* 2024-04-01 .. 2024-04-30.
RangeFilter ==
  LET day(parts, y, m, d) ==
        ParseNat(parts[y]) * 10000 + ParseNat(parts[m]) * 100 + ParseNat(parts[d])
      mid == <<"1","5","/","0","3","/","2","0","2","4">>
  IN  /\ \A s \in Sessions :
           (report[s].reportType = "staff" /\ report[s].message \in {"found", "none found"})
           => LET from == report[s].dateFromISO
                  to == report[s].dateToISO
                  within(k) ==
                    LET date == staffEvaluations[k].selection.date
                    IN  /\ MatchesDMY(date)
                        /\ from # <<>> => day(split(from, "-"), 1, 2, 3)
                                            <= day(split(date, "/"), 3, 2, 1)
                        /\ to # <<>> => day(split(date, "/"), 3, 2, 1)
                                          <= day(split(to, "-"), 1, 2, 3)
              IN  { report[s].results[j].id : j \in 1..Len(report[s].results) }
                  = { k \in 1..Len(staffEvaluations) : within(k) }
      /\ withinRange(mid, <<"2","0","2","4","-","0","3","-","0","1">>,
                     <<"2","0","2","4","-","0","3","-","3","1">>)
      /\ ~withinRange(mid, <<"2","0","2","4","-","0","4","-","0","1">>,
                      <<"2","0","2","4","-","0","4","-","3","0">>)

\* the report for 2024-03-01 .. 2024-03-31 holds the evaluations of the first
\* and of the last day of March
RangeFilterWitness ==
  /\ report[1].dateFromISO = <<"2","0","2","4","-","0","3","-","0","1">>
  /\ report[1].dateToISO = <<"2","0","2","4","-","0","3","-","3","1">>
  /\ report[1].message = "found"
  /\ \E i, j \in 1..Len(report[1].results) :
       /\ report[1].results[i].selection.date = <<"0","1","/","0","3","/","2","0","2","4">>
       /\ report[1].results[j].selection.date = <<"3","1","/","0","3","/","2","0","2","4">>

\* C19: dedupeById keeps the first document of each id, in order, and changes
\* nothing when applied again; the results of a report have each id once; and
\* had the snapshot a staff query is waiting for held one of its documents a
\* second time, the results, the employee rows and the parameter statistics
\* would be the same.
DedupedOnce ==
  /\ \A s \in Sessions :
       \A a, b \in 1..Len(report[s].results) :
         report[s].results[a].id = report[s].results[b].id => a = b
  /\ \A t \in 1..Len(tasks) :
       (tasks[t].kind = "report" /\ tasks[t].reportType = "staff") =>
         LET docs == staffReportDocs(tasks[t].branch)
             from == tasks[t].dateFromISO
             to == tasks[t].dateToISO
         IN  \A i \in 1..Len(docs) :
               \A j \in i..Len(docs) :
                 LET twice == SubSeq(docs, 1, j) \o << docs[i] >>
                              \o SubSeq(docs, j + 1, Len(docs))
                 IN  /\ dedupeById(twice) = docs
                     /\ dedupeById(dedupeById(twice)) = dedupeById(twice)
                     /\ staffReportResults(twice, from, to)
                        = staffReportResults(docs, from, to)
                     /\ employeesAggregated(staffReportResults(twice, from, to))
                        = employeesAggregated(staffReportResults(docs, from, to))
                     /\ computeParameterStats(staffReportResults(twice, from, to))
                        = computeParameterStats(staffReportResults(docs, from, to))

\* a report of two evaluations: the snapshot with its first document repeated
\* at the end gives these results
DedupedOnceWitness ==
  /\ report[1].reportType = "staff"
  /\ Len(report[1].results) = 2
  /\ report[1].results[1].id # report[1].results[2].id
  /\ dedupeById(report[1].results \o << report[1].results[1] >>) = report[1].results

\* C20: the parameter statistics of the results have an entry for every key
\* of a record's ratings that does not end in "_remarks" and for no other;
\* the entry counts the records that rate the key Excellent, Good, Average and
\* Poor, its total is the sum of the four, no more than the number of
\* records, and other values are not counted.
ParameterStatsCounts ==
  \A s \in Sessions :
    LET res == report[s].results
        info == computeParameterStats(res)
        rated(i) == IF "ratings" \in DOMAIN res[i] THEN res[i].ratings ELSE << >>
        names == { k \in UNION { DOMAIN rated(i) : i \in 1..Len(res) } :
                     \/ Len(k) < 8
                     \/ SubSeq(k, Len(k) - 7, Len(k)) # <<"_","r","e","m","a","r","k","s">> }
        n(p, level) == Cardinality({ i \in 1..Len(res) :
                                      p \in DOMAIN rated(i) /\ rated(i)[p] = level })
    IN  /\ info.params = names
        /\ DOMAIN info.stats = names
        /\ \A p \in names :
             /\ info.stats[p].Excellent = n(p, Excellent)
             /\ info.stats[p].Good = n(p, Good)
             /\ info.stats[p].Average = n(p, Average)
             /\ info.stats[p].Poor = n(p, Poor)
             /\ info.stats[p].total = n(p, Excellent) + n(p, Good) + n(p, Average)
                                      + n(p, Poor)
             /\ info.stats[p].total <= Len(res)

\* the summary document of two evaluations that give the first parameter
\* Good, with a remark, and a value that is no level: one rating counted
ParameterStatsCountsWitness ==
  /\ report[1].summary.saved
  /\ Len(report[1].results) = 2
  /\ \E i \in 1..2 : Lookup(ratingsOf(report[1].results[i]), params[1]) = <<"B","a","d">>
  /\ \E i \in 1..2 : remarksKey(params[1]) \in DOMAIN ratingsOf(report[1].results[i])
  /\ report[1].summary.params = { params[1], params[2] }
  /\ report[1].summary.stats[params[1]].Good = 1
  /\ report[1].summary.stats[params[1]].total = 1

\* C21: the stored collections only grow.  Every step leaves the records of
\* unitAudits and staffEvaluations as they are, and a step that changes the
\* store adds one record to one collection: the payload of one write that was
\* awaiting the store, which is then over, of a submission with every required
\* field filled in and every checklist item answered or parameter rated.
AppendOnly ==
  [][ /\ Len(unitAudits') >= Len(unitAudits)
      /\ SubSeq(unitAudits', 1, Len(unitAudits)) = unitAudits
      /\ Len(staffEvaluations') >= Len(staffEvaluations)
      /\ SubSeq(staffEvaluations', 1, Len(staffEvaluations)) = staffEvaluations
      /\ (storeVars' # storeVars) =>
           \E i \in 1..Len(tasks) :
             /\ tasks[i].pc = "write"
             /\ tasks' = RemoveAt(tasks, i)
             /\ \/ /\ tasks[i].kind = "unit"
                   /\ staffEvaluations' = staffEvaluations
                   /\ unitAudits' = Append(unitAudits, tasks[i].payload)
                   /\ \A f \in {"auditor", "date", "branch", "city"} :
                        tasks[i].payload[f] \notin { <<>>, Undefined }
                   /\ \A section \in Sections :
                        \A p \in Range(sectionParams(section)) :
                          Lookup(tasks[i].payload[section], p) \in {Yes, No}
                \/ /\ tasks[i].kind = "staff"
                   /\ unitAudits' = unitAudits
                   /\ Len(staffEvaluations') = Len(staffEvaluations) + 1
                   /\ [ k \in DOMAIN tasks[i].payload |->
                          staffEvaluations'[Len(staffEvaluations')][k] ]
                        = tasks[i].payload
                   /\ trim(tasks[i].payload.staffName) # <<>>
                   /\ trim(tasks[i].payload.empCode) # <<>>
                   /\ \A p \in Range(params) :
                        Lookup(tasks[i].payload.ratings, p) \in Range(ratingOptions)
    ]_vars

\* the session stored an audit for Kochi from the unit form, left the form and
\* is on the Retrieve Reports page
AppendOnlyWitness ==
  /\ \E k \in 1..Len(unitAudits) : unitAudits[k].branch = Kochi
  /\ page[1] = "retrieve"
  /\ tasks = <<>>

UnmountedResultDiscarded ==
  [][ \A i \in 1..Len(tasks) :
        ~tasks[i].mounted =>
          /\ ~( /\ tasks[i].pc = "query"
                /\ Len(tasks') = Len(tasks)
                /\ tasks'[i].pc = "write" )
          /\ (tasks' = RemoveAt(tasks, i)) =>
               UNCHANGED << appVars, selectVars, unitVars, staffVars, reportVars >>
    ]_vars

\* C24: a session enters the unit-audit form only in the step in which the
\* query SelectPage sent for the chosen branch and today's date completes, the
\* store holding no audit for that branch and date, and it enters with that
\* selection; sending the query moves no page; a query that completes while
\* the store holds such an audit, or that ends in an alert (the audit exists,
\* the query failed), leaves page and selection as they are; a session enters
\* the staff form from the selection page with type "staff" chosen, in a step
\* that sends no query.
SelectGate ==
  [][ /\ \A s \in Sessions :
           /\ (page[s] # "unit" /\ page'[s] = "unit") =>
                \E i \in 1..Len(tasks) :
                  /\ tasks[i].kind = "select" /\ tasks[i].pc = "query"
                  /\ tasks[i].sess = s
                  /\ Len(tasks') = Len(tasks) - 1
                  /\ tasks[i].selection.type = "unit"
                  /\ tasks[i].selection.date = FormatLocal(Days[today])
                  /\ \A k \in 1..Len(unitAudits) :
                       ~( /\ unitAudits[k].branch = tasks[i].selection.branch
                          /\ unitAudits[k].date = tasks[i].selection.date )
                  /\ selection'[s] = tasks[i].selection
           /\ (page[s] # "staff" /\ page'[s] = "staff") =>
                /\ page[s] = "select"
                /\ selType[s] = "staff"
                /\ selection'[s].branch = selBranch[s]
                /\ Len(tasks') = Len(tasks)
      /\ (Len(tasks') = Len(tasks) + 1 /\ tasks'[Len(tasks')].kind = "select") =>
           /\ page' = page
           /\ tasks'[Len(tasks')].selection.branch = selBranch[tasks'[Len(tasks')].sess]
      /\ \A i \in 1..Len(tasks) :
           ( /\ tasks[i].kind = "select"
             /\ Len(tasks') = Len(tasks) - 1
             /\ \/ alert'[tasks[i].sess] # alert[tasks[i].sess]
                \/ \E k \in 1..Len(unitAudits) :
                     /\ unitAudits[k].branch = tasks[i].selection.branch
                     /\ unitAudits[k].date = tasks[i].selection.date )
           => UNCHANGED appVars
    ]_vars

\* the session chose Koramangala and "unit" on the selection page, the store
\* holding no audit, and is on the untouched unit-audit form
SelectGateWitness ==
  /\ page[1] = "unit"
  /\ formData[1] = FreshForm
  /\ selection[1] = selectionOf(Koramangala, "unit", todayDD)
  /\ unitAudits = <<>>
  /\ tasks = <<>>

\* what a session can do next, and what it can get: each page operation, each
\* submit and query, each answer of the store to each running handler, the
\* pages it can reach, whether the store can grow and whether an alert can
\* be shown
CoreEnabled ==
  << [s \in clients |->
        << ENABLED setBranch(s), ENABLED setType(s), ENABLED selectHandleSubmit(s),
           ENABLED onOpenRetrieve(s), ENABLED goBack(s),
           ENABLED unitHandleSubmit(s), ENABLED staffHandleSubmit(s),
           ENABLED runQuery(s) >>],
     [i \in 1..Len(tasks) |->
        << ENABLED SelectStoreStep(i), ENABLED UnitStoreStep(i),
           ENABLED StaffStoreStep(i), ENABLED ReportStoreStep(i) >>] >>

\* C25: the outcome of the anonymous sign-in gates no core operation.  A
\* step that ends the sign-in, with success or with failure, changes nothing
\* but the sign-in state, and after it exactly the same page operations,
\* submits, queries and store answers are enabled, reaching the same pages,
\* alerts and writes, as before it; no other step touches the sign-in state.
\* Two executions that differ only in the outcome of the sign-in therefore
\* go through the same core states.
AuthIndependent ==
  [][ /\ (authVars' # authVars) => /\ UNCHANGED coreVars
                                   /\ CoreEnabled' = CoreEnabled
      /\ (coreVars' # coreVars) => UNCHANGED authVars ]_vars

\* the sign-in has failed, and the session went on: an audit of Kochi was
\* written and the session then opened the Retrieve Reports page and ran a
\* query there
AuthIndependentWitness ==
  /\ signIn[1] = "failed"
  /\ ~authed[1]
  /\ \E k \in 1..Len(unitAudits) : unitAudits[k].branch = Kochi
  /\ page[1] = "retrieve"
  /\ report[1].message # "none"

\* what the history fetch of an employee yields from the store: the
\* documents with the employee's code, or else with the employee's name,
\* within the range
historyOf(empCode, staffName, fromISO, toISO) ==
  LET byCode == IF Truthy(empCode) THEN historyDocs("empCode", empCode) ELSE <<>>
      docs == IF byCode # <<>> THEN byCode
              ELSE IF Truthy(staffName) THEN historyDocs("staffName", staffName)
              ELSE <<>>
  IN  historyRows(docs, fromISO, toISO)

\* C26: the employee PDF saved by the PDF button of a row of the results
\* table holds the rows and the average of that employee's evaluations
\* within the selected range, as the employee's history fetch yields them.
RowPDFHoldsHistory ==
  \A s \in clients :
    (page[s] = "retrieve" /\ detail[s].pdf.saved /\ detail[s].pdf.button = "row") =>
      LET pdf == detail[s].pdf
          rows == historyOf(pdf.empCode, pdf.staffName,
                            report[s].dateFromISO, report[s].dateToISO)
      IN  /\ pdf.rows = rows
          /\ pdf.averages = historyAverages(rows)

\* C28: when the employee detail view is shown and loadingHistory is false,
\* every record of employeeHistory is an evaluation of the selected employee
\* and the average shown is that of the selected employee's history within
\* the range, or none after a failed fetch.
DetailShowsSelected ==
  \A s \in clients :
    (detailShown(s) /\ ~detail[s].loadingHistory) =>
      LET d == detail[s]
          emp == d.selectedEmployee
          rows == historyOf(emp.empCode, emp.staffName,
                            report[s].dateFromISO, report[s].dateToISO)
      IN  /\ \A k \in 1..Len(d.employeeHistory) :
               \/ TrimOrEmpty(Lookup(d.employeeHistory[k], "empCode")) = emp.empCode
               \/ TrimOrEmpty(Lookup(d.employeeHistory[k], "staffName")) = emp.staffName
          /\ d.employeeAverages \in { EmptyObj, historyAverages(rows) }

\* the range of session s is the month m: its bounds are the first and the
\* last day of m, and the range holds those two days and neither the day
\* before the first nor the day after the last
RangeIsMonth(rep, m) ==
  /\ isoToLocalDate(rep.dateFromISO) = m.first
  /\ isoToLocalDate(rep.dateToISO) = m.last
  /\ withinRange(FormatLocal(m.first), rep.dateFromISO, rep.dateToISO)
  /\ withinRange(FormatLocal(m.last), rep.dateFromISO, rep.dateToISO)
  /\ ~withinRange(FormatLocal(PrevDay(m.first)), rep.dateFromISO, rep.dateToISO)
  /\ ~withinRange(FormatLocal(NextDay(m.last)), rep.dateFromISO, rep.dateToISO)

\* C29: in every time zone, the This month button sets the range to the
\* first and the last local calendar day of the month the clock shows, and
\* the Last month button to those of the month before, so that the range
\* holds the records of the month's first and last day and none of the
\* adjacent months.
PresetIsLocalMonth ==
  [][ \A now \in PresetDays :
        /\ presetThisMonth(1, now) => RangeIsMonth(report'[1], MonthOf(now))
        /\ presetLastMonth(1, now) => RangeIsMonth(report'[1], MonthBefore(now)) ]_vars

\* the staff details of a form
staffDetails(f) == << f.staffName, f.empCode, f.designation >>

\* C27: the result of the employee-code lookup sent when the Emp Code field
\* lost the focus leaves the staff details of the form alone when it arrives
\* late: after the user picked a suggestion, or typed into the staff details,
\* since the lookup was sent.  The staff details a record is written from are
\* then those of the user's latest action.
LateLookupKeepsChoice ==
  [][ \A i \in 1..Len(tasks) :
        ( /\ latestStaffFound(i)
          /\ tasks[i].mounted
          /\ \/ staffDetails(form[tasks[i].sess]) # staffDetails(tasks[i].form)
             \/ autocomplete[tasks[i].sess].selectedSuggestion # NoSuggestion )
        => staffDetails(form'[tasks[i].sess]) = staffDetails(form[tasks[i].sess]) ]_vars

\* a remark of a record: an option other than the sentinel and Other
\* (manual), or a manual text, trimmed and not empty
ResolvedRemark(which, text) ==
  \/ text \in Range(remarkOptions(which)) \ { SelectSentinel, OtherManual }
  \/ \E t \in cfg.texts \cup { <<"L","e","a","k">> } : trim(t) # <<>> /\ text = trim(t)

\* a record or payload with resolved remarks and scored remarks
ResolvedAudit(r) ==
  /\ ResolvedRemark("observations", r.observations)
  /\ ResolvedRemark("maintenance", r.maintenance)
  /\ ResolvedRemark("action", r.actionPlan)
  /\ r.scoreBreakdown.observations \in { OBS_MAINT_PTS, -OBS_MAINT_PTS }
  /\ r.scoreBreakdown.maintenance \in { OBS_MAINT_PTS, -OBS_MAINT_PTS }

\* C30: on the unit-audit form a remark's manual text is not empty only
\* while its option is Other (manual); every audit written, and every audit on
\* its way to the store, has each of observations, maintenance and actionPlan
\* equal to a chosen option that is not the sentinel or to the trimmed,
\* non-empty manual text, and its observation and maintenance scores are 11
\* or -11, never 0.
RemarksResolved ==
  /\ \A s \in clients :
       page[s] = "unit" =>
         \A which \in Remarks :
           formData[s][ManualField(which)] # <<>> =>
             formData[s][PresetField(which)] = OtherManual
  /\ \A k \in 1..Len(unitAudits) : ResolvedAudit(unitAudits[k])
  /\ \A i \in 1..Len(tasks) : tasks[i].kind = "unit" => ResolvedAudit(tasks[i].payload)

\* an audit is stored whose observation is the manual text typed under Other
\* (manual) and scored -11, and the form has meanwhile gone from Other
\* (manual) to another option, its manual text cleared
RemarksResolvedWitness ==
  /\ \E k \in 1..Len(unitAudits) :
       /\ unitAudits[k].observations = <<"L","e","a","k">>
       /\ unitAudits[k].scoreBreakdown.observations = -OBS_MAINT_PTS
  /\ formData[1].observationsPreset = NoIssuesObserved
  /\ formData[1].observationsManual = <<>>

=============================================================================
